---- MODULE Spec2Model ----
(***************************************************************************)
(* Orchard sync core: the metadata store (objects, shadows, drive_cache,   *)
(* actions), the FUSE adapter (OrchardFS) and the sync engine (SyncEngine),*)
(* against an abstract iCloud Drive remote.                                *)
(***************************************************************************)
EXTENDS Integers, Sequences, FiniteSets, TLC

(* ----------------------------- bounds --------------------------------- *)
\* AUTOINCREMENT action ids handed out in one run of the model
MaxActionId == 3
\* local object ids handed out (adapter creates and remote listings)
MaxObjects == 2
\* objects a pull inserts beside them
MaxPulled == 1
\* one-second clock ticks (jumps to a retry deadline are not counted)
MaxTime == 1
\* cloud ids / etags the remote hands out beyond its initial content
MaxRemoteSeq == 3
\* file handles simultaneously open on one object
MaxHandles == 1
\* action ids a rename may draw beyond MaxActionId
MaxRenameIds == 1
\* action ids an rmdir may take beyond MaxActionId
MaxRmdirIds == 1

(* --------------------------- program constants ------------------------ *)
NULL == "NULL"
\* a hash that is None, a chunk index that is absent, no task in hand
NoHash == <<>>
NoChunk == -1
NoTask == <<>>
NoCall == <<>>
MAX_RETRIES == 5
BASE_BACKOFF_SECONDS == 30
PARTIAL_THRESHOLD == 33554432
CLOUD_DOCS_ZONE_ID_ROOT == "FOLDER::com.apple.CloudDocs::root"

SYNC_STATE_SYNCHRONIZED == "synced"
SYNC_STATE_PENDING_PUSH == "pending_push"
SYNC_STATE_CONFLICT == "conflict"
SYNC_STATE_ERROR == "error"

(* ------------------------------ universes ----------------------------- *)
\* os.urandom ids: fresh, never reused
ObjIds == <<"o1", "o2", "o3", "o4", "o5">>
CloudIds == <<"c1", "c2", "c3", "c4", "c5", "c6">>
Etags == <<"e1", "e2", "e3", "e4", "e5", "e6">>

\* names the user process passes to create / mkdir
FileNames == {"a.txt"}
FolderNames == {"d"}
\* what a user process writes: (data, offset)
WriteData == {<<1>>, <<2>>}
WriteOffsets == {0}

\* exception messages a remote call can end with
TransientErrors == {"Connection refused"}
PersistentErrors == {"iCloud Drive API Error 400"}
RemoteErrors == TransientErrors \cup PersistentErrors

VARIABLES
    objects,        \* table objects: id -> row
    shadows,        \* table shadows: object_id -> row
    drive_cache,    \* table drive_cache: object_id -> row
    files,          \* cache directory: object id -> bytes of the cache file
    actions,        \* table actions: set of rows
    next_action_id, \* AUTOINCREMENT of actions.action_id
    next_obj,       \* how many os.urandom ids were drawn
    handle_map,     \* OrchardFS.handle_map, as open handles per object id
    now,            \* int(time.time())
    running,        \* SyncEngine._loop entered
    drive_svc,      \* SyncEngine.drive_svc is not None
    task,           \* the row _loop is processing (dict(row)), or NULL
    remote,         \* iCloud Drive: cloud id -> item
    remote_seq,     \* ids / etags the remote handed out
    enq,            \* per thread: the enqueue_action call between its SELECT
                    \* and its write, with the rows the SELECT returned
    readdir_wait,   \* the readdir call inside its wait loop, or what it returned
    path_to_id      \* OrchardFS.path_to_id: path below /Drive -> object id

vars == <<objects, shadows, drive_cache, files, actions, next_action_id,
          next_obj, handle_map, now, running, drive_svc, task, remote,
          remote_seq, enq, readdir_wait, path_to_id>>


(* ------------------------------ helpers ------------------------------- *)
Max(a, b) == IF a >= b THEN a ELSE b

RECURSIVE Pow2(_)
Pow2(n) == IF n = 0 THEN 1 ELSE 2 * Pow2(n - 1)

\* hashlib.sha256 of a file's bytes; None when the path does not exist
Sha256(bytes) == <<"sha256", bytes>>

_calculate_hash(id) == IF id \in DOMAIN files THEN Sha256(files[id]) ELSE NoHash

\* name.rsplit('.', 1) as create_new_file and rename apply it
SplitBase(name) ==
    CASE name = "a.txt" -> "a"
      [] name = "b.txt" -> "b"
      [] name = "._a" -> ""
      [] OTHER -> name

SplitExt(name) ==
    CASE name = "a.txt" -> "txt"
      [] name = "b.txt" -> "txt"
      [] name = "._a" -> "_a"
      [] OTHER -> NULL

\* display name: name plus '.' and the extension when one is set
FullName(name, ext) == IF ext = NULL THEN name ELSE name \o "." \o ext

\* str.startswith('.goutputstream') or '.Trash' or '._'
IsTempName(s) == s \in {"._a"}

NoMeta == [name |-> NULL, file_hash |-> NoHash, from_name |-> NULL,
           to_name |-> NULL, original_parent_id |-> NULL, chunk_index |-> NoChunk]

MetaKeys == {"name", "file_hash", "from_name", "to_name", "original_parent_id", "chunk_index"}

\* dict.update: keys of m overwrite those of p
MetaUpdate(p, m) == [k \in MetaKeys |-> IF m[k] # NoMeta[k] THEN m[k] ELSE p[k]]

(* ------------------------------- rows --------------------------------- *)
\* INSERT INTO objects with the schema defaults
ObjectRow(type, parent, name, ext) ==
    [type |-> type, parent_id |-> parent, name |-> name, extension |-> ext,
     size |-> 0, cloud_id |-> NULL, cloud_parent_id |-> NULL, etag |-> NULL,
     missing_from_cloud |-> 0, sync_state |-> SYNC_STATE_SYNCHRONIZED,
     dirty |-> 0, deleted |-> 0, last_synced |-> 0]

CacheRow(size, present, open_count) ==
    [size |-> size, present_locally |-> present, pinned |-> 0,
     open_count |-> open_count, last_accessed |-> 0]

\* LocalState.__init__: these are never filled from drive_cache
LocalPresent(id) == 0
LocalOpenCount(id) == 0

\* DriveObject.__init__: the drive_cache row as loaded with the object
LoadedPresent(dc, id) == IF id \in DOMAIN dc THEN dc[id].present_locally ELSE 0
LoadedOpenCount(dc, id) == IF id \in DOMAIN dc THEN dc[id].open_count ELSE 0
LoadedLastAccessed(dc, id) == IF id \in DOMAIN dc THEN dc[id].last_accessed ELSE 0

\* DriveObject.update_cache_entry: INSERT OR REPLACE (pinned is not listed)
update_cache_entry(dc, id, size, present, open_count) ==
    [x \in DOMAIN dc \cup {id} |->
        IF x = id
        THEN [size |-> size, present_locally |-> present, pinned |-> 0,
              open_count |-> open_count, last_accessed |-> LoadedLastAccessed(dc, id)]
        ELSE dc[x]]

Put(f, k, v) == [x \in DOMAIN f \cup {k} |-> IF x = k THEN v ELSE f[x]]
Drop(f, k) == [x \in DOMAIN f \ {k} |-> f[x]]


(* --------------------- OrchardDB.enqueue_action ----------------------- *)
Perms(R) ==
    {s \in [1..Cardinality(R) -> R] : \A i, j \in 1..Cardinality(R) : i # j => s[i] # s[j]}

\* SELECT ... WHERE target_id = ? AND status IN (...) ORDER BY created_at DESC
\* (rows of one second come back in any order)
SelectPending(acts, target_id) ==
    LET R == {a \in acts : a.target_id = target_id
                            /\ a.status \in {"pending", "processing", "failed"}}
    IN  {s \in Perms(R) : \A i \in 1..(Cardinality(R) - 1) :
                              s[i].created_at >= s[i + 1].created_at}

\* the row loops of enqueue_action: the index of the row the new intent is
\* folded into, 0 when the loop breaks or runs out (standard enqueue)
RECURSIVE CoalesceWalk(_, _, _, _)
CoalesceWalk(rows, i, foldTypes, skipTypes) ==
    IF i > Len(rows) THEN 0
    ELSE IF rows[i].status = "processing" THEN 0
    ELSE IF rows[i].action_type \in foldTypes THEN i
    ELSE IF rows[i].action_type \in skipTypes THEN CoalesceWalk(rows, i + 1, foldTypes, skipTypes)
    ELSE 0

\* variant: the fold clears retry_count but leaves status and last_error
update_and_exit_retry_only(acts, action_id, updates) ==
    {IF a.action_id = action_id
     THEN [f \in DOMAIN a |->
              CASE f \in DOMAIN updates -> updates[f]
                [] f = "retry_count" -> 0
                [] OTHER -> a[f]]
     ELSE a : a \in acts}

\* update_and_exit: UPDATE actions SET <updates>, status = 'pending',
\* retry_count = 0, last_error = NULL WHERE action_id = ?
update_and_exit(acts, action_id, updates) ==
    {IF a.action_id = action_id
     THEN [f \in DOMAIN a |->
              CASE f \in DOMAIN updates -> updates[f]
                [] f = "status" -> "pending"
                [] f = "retry_count" -> 0
                [] f = "last_error" -> NULL
                [] OTHER -> a[f]]
     ELSE a : a \in acts}

\* delete_and_exit: DELETE FROM actions WHERE action_id IN (...)
delete_and_exit(acts, action_ids) == {a \in acts : a.action_id \notin action_ids}

\* Standard Enqueue: INSERT INTO actions (...) VALUES (..., 'pending')
InsertAction(acts, nid, target_id, action_type, direction, destination, metadata, priority, t) ==
    acts \cup {[action_id |-> nid, action_type |-> action_type, target_id |-> target_id,
                destination |-> destination, metadata |-> metadata,
                direction |-> direction, priority |-> priority, created_at |-> t,
                status |-> "pending", retry_count |-> 0, last_error |-> NULL]}

\* variant: a delete discards only the rows still pending
PendingIds(rows) ==
    {rows[i].action_id : i \in {j \in 1..Len(rows) : rows[j].status = "pending"}}

\* ids_to_delete: every fetched row that is not processing
DeletableIds(rows) ==
    {rows[i].action_id : i \in {j \in 1..Len(rows) : rows[j].status # "processing"}}

\* enqueue_action after its SELECT returned `rows`; acts is the table the
\* writes land on.  Result: the table and the AUTOINCREMENT counter.
enqueue_action(acts, nid, rows, target_id, action_type, direction, destination, metadata, priority, t) ==
    LET ins(tbl) == [actions |-> InsertAction(tbl, nid, target_id, action_type, direction,
                                              destination, metadata, priority, t),
                     next_action_id |-> nid + 1]
        keep(tbl) == [actions |-> tbl, next_action_id |-> nid]
        idx == CASE action_type = "rename" ->
                      CoalesceWalk(rows, 1, {"rename", "upload", "update_content"}, {"move"})
                 [] action_type = "move" ->
                      CoalesceWalk(rows, 1, {"move"}, {"rename"})
                 [] action_type = "update_content" ->
                      CoalesceWalk(rows, 1, {"update_content", "upload"}, {"rename", "move"})
                 [] OTHER -> 0
    IN  CASE action_type = "list_children" ->
               IF \E i \in 1..Len(rows) : rows[i].action_type = "list_children"
               THEN keep(acts) ELSE ins(acts)
          [] action_type = "delete" ->
               ins(delete_and_exit(acts, DeletableIds(rows)))
          [] action_type = "rename" /\ idx > 0 ->
               IF rows[idx].action_type = "rename"
               THEN keep(update_and_exit(acts, rows[idx].action_id,
                        [destination |-> destination,
                         metadata |-> [rows[idx].metadata EXCEPT !.to_name = metadata.to_name]]))
               ELSE keep(update_and_exit(acts, rows[idx].action_id,
                        [metadata |-> [MetaUpdate(rows[idx].metadata, metadata)
                                          EXCEPT !.name = metadata.to_name]]))
          [] action_type = "move" /\ idx > 0 ->
               keep(update_and_exit(acts, rows[idx].action_id, [destination |-> destination]))
          [] action_type = "update_content" /\ idx > 0 ->
               keep(update_and_exit(acts, rows[idx].action_id,
                        [metadata |-> MetaUpdate(rows[idx].metadata, metadata)]))
          [] OTHER -> ins(acts)

\* the calls enqueue_action can make from the current table, one per order
\* its SELECT may return
Enqueued(acts, nid, target_id, action_type, direction, destination, metadata, priority, t) ==
    {enqueue_action(acts, nid, rows, target_id, action_type, direction, destination,
                    metadata, priority, t) : rows \in SelectPending(acts, target_id)}

(* ------------------------- OrchardFS._resolve ------------------------- *)
\* the child lookup of _resolve: parent_id = ? AND deleted = 0 AND the name
\* or the name with its extension equals the path component
ChildMatches(objs, parent_id, part) ==
    {c \in DOMAIN objs :
        /\ objs[c].parent_id = parent_id
        /\ objs[c].deleted = 0
        /\ \/ objs[c].name = part
           \/ objs[c].extension # NULL /\ FullName(objs[c].name, objs[c].extension) = part}

\* the objects a path below /Drive can resolve to (fetchone takes any match)
RECURSIVE ResolveFrom(_, _, _, _)
ResolveFrom(objs, cur, parts, i) ==
    IF i > Len(parts) THEN {cur}
    ELSE UNION {ResolveFrom(objs, c, parts, i + 1) : c \in ChildMatches(objs, cur, parts[i])}

\* _resolve(path) when the path is not in the cache: the traversal alone
_resolve(path) ==
    IF "drive_root" \in DOMAIN objects THEN ResolveFrom(objects, "drive_root", path, 1) ELSE {}

\* OrchardFS.__init__: the path cache as the process starts with it
NoPaths == [path \in {<<>>} |-> "drive_root"]

\* the traversal of _resolve: every component found is written to the cache;
\* a component with no live match ends it with None
RECURSIVE Traverse(_, _, _, _, _)
Traverse(objs, cache, cur, path, i) ==
    IF i > Len(path) THEN {[obj |-> cur, path_to_id |-> cache]}
    ELSE IF ChildMatches(objs, cur, path[i]) = {} THEN {[obj |-> NULL, path_to_id |-> cache]}
    ELSE UNION {Traverse(objs, Put(cache, SubSeq(path, 1, i), c), c, path, i + 1) :
                   c \in ChildMatches(objs, cur, path[i])}

\* _resolve(path) with its cache: a cached id whose object exists and is not
\* deleted is returned at once; a stale entry is dropped and the path is
\* traversed from /Drive
ResolveCached(objs, cache, path) ==
    IF /\ path \in DOMAIN cache
       /\ cache[path] \in DOMAIN objs
       /\ objs[cache[path]].deleted = 0
    THEN {[obj |-> cache[path], path_to_id |-> cache]}
    ELSE LET dropped == IF path \in DOMAIN cache THEN Drop(cache, path) ELSE cache
         IN  IF "drive_root" \in DOMAIN objs
             THEN Traverse(objs, Put(dropped, <<>>, "drive_root"), "drive_root", path, 1)
             ELSE {[obj |-> NULL, path_to_id |-> dropped]}

\* the outcomes of _resolve(path) that return an object
Resolved(path) == {r \in ResolveCached(objects, path_to_id, path) : r.obj # NULL}

\* paths below /Drive the user process names
ParentPaths == {<<>>} \cup {<<d>> : d \in FolderNames}
FilePaths == {pp \o <<n>> : pp \in ParentPaths, n \in FileNames}
FolderPaths == {<<d>> : d \in FolderNames}
\* names and paths the user process passes to rename
RenameNames == {"a.txt", "b.txt"}
RenamePaths == {pp \o <<n>> : pp \in ParentPaths, n \in RenameNames}

HandleCount(id) == IF id \in DOMAIN handle_map THEN handle_map[id] ELSE 0
AddHandle(id) == Put(handle_map, id, HandleCount(id) + 1)
PopHandle(id) == IF HandleCount(id) > 1 THEN Put(handle_map, id, HandleCount(id) - 1)
                 ELSE Drop(handle_map, id)


(* ----------------------- OrchardFS operations ------------------------- *)
\* DriveFile.create_new_file / DriveFolder.create_new_folder: the INSERT
NewLocalRow(type, parent_id, name) ==
    [ObjectRow(type, parent_id,
               IF type = "file" THEN SplitBase(name) ELSE name,
               IF type = "file" THEN SplitExt(name) ELSE NULL)
        EXCEPT !.dirty = 1, !.sync_state = "dirty_local"]

\* bytes of a file after seek(offset); write(data) on a file holding `bytes`
WriteAt(bytes, data, offset) ==
    [i \in 1..Max(Len(bytes), offset + Len(data)) |->
        IF i > offset /\ i <= offset + Len(data) THEN data[i - offset]
        ELSE IF i <= Len(bytes) THEN bytes[i] ELSE 0]

\* OrchardObject.commit: UPDATE objects SET name, extension, parent_id, size,
\* dirty = 1, sync_state = pending_push
commit(objs, id, name, ext, parent_id, size) ==
    [objs EXCEPT ![id] = [@ EXCEPT !.name = name, !.extension = ext,
                                   !.parent_id = parent_id, !.size = size,
                                   !.dirty = 1, !.sync_state = SYNC_STATE_PENDING_PUSH]]

\* create(path): a new file object, an empty cache file, and (unless the name
\* is a temp name) an upload intent
Create(pp, name) ==
    /\ next_obj <= MaxObjects
    /\ _resolve(pp \o <<name>>) = {}
    /\ \E res \in Resolved(pp) :
        path_to_id' = res.path_to_id /\ \E p \in {res.obj} :
        /\ objects[p].type = "folder"
        /\ LET id == ObjIds[next_obj] IN
            /\ objects' = Put(objects, id, NewLocalRow("file", p, name))
            /\ files' = Put(files, id, <<>>)
            /\ drive_cache' = update_cache_entry(drive_cache, id, 0, 1, 0)
            /\ next_obj' = next_obj + 1
            /\ handle_map' = AddHandle(id)
            /\ IF IsTempName(name)
               THEN UNCHANGED <<actions, next_action_id>>
               ELSE \E r \in Enqueued(actions, next_action_id, id, "upload", "push", NULL,
                                      [NoMeta EXCEPT !.name = name], 0, now) :
                        /\ r.next_action_id <= MaxActionId + 1
                        /\ actions' = r.actions
                        /\ next_action_id' = r.next_action_id
    /\ UNCHANGED <<shadows, enq, readdir_wait, now, running, drive_svc, task, remote,
               remote_seq>>

\* mkdir(path)
Mkdir(pp, name) ==
    /\ next_obj <= MaxObjects
    /\ _resolve(pp \o <<name>>) = {}
    /\ \E res \in Resolved(pp) :
        path_to_id' = res.path_to_id /\ \E p \in {res.obj} :
        LET id == ObjIds[next_obj] IN
            /\ objects' = Put(objects, id, NewLocalRow("folder", p, name))
            /\ drive_cache' = Put(drive_cache, id, CacheRow(0, 0, 0))
            /\ next_obj' = next_obj + 1
            /\ \E r \in Enqueued(actions, next_action_id, id, "upload", "push", NULL,
                                 [NoMeta EXCEPT !.name = name], 0, now) :
                    /\ r.next_action_id <= MaxActionId + 1
                    /\ actions' = r.actions
                    /\ next_action_id' = r.next_action_id
    /\ UNCHANGED <<shadows, enq, readdir_wait, files, handle_map, now, running, drive_svc,
               task, remote, remote_seq>>

\* variant: open asks for the content whatever process opens the file
OpenFetchesForAnyProcess(id, blacklisted) == LocalPresent(id) = 0

\* open: `if not obj.local.present` and the caller is no blacklisted process
OpenFetches(id, blacklisted) == LocalPresent(id) = 0 /\ ~blacklisted

\* open(path, flags)
Open(path, blacklisted) ==
    /\ \E res \in Resolved(path) :
        path_to_id' = res.path_to_id /\ \E id \in {res.obj} :
        /\ objects[id].type = "file"
        /\ HandleCount(id) < MaxHandles
        \* a large file takes create_sparse_placeholder, which DriveFile lacks
        /\ OpenFetches(id, blacklisted) => objects[id].size < PARTIAL_THRESHOLD
        /\ IF OpenFetches(id, blacklisted)
           THEN \E r \in Enqueued(actions, next_action_id, id, "ensure_latest", "pull", NULL,
                                  NoMeta, 10, now) :
                    /\ r.next_action_id <= MaxActionId + 1
                    /\ actions' = r.actions
                    /\ next_action_id' = r.next_action_id
           ELSE UNCHANGED <<actions, next_action_id>>
        /\ drive_cache' = update_cache_entry(drive_cache, id, objects[id].size,
                                             LoadedPresent(drive_cache, id),
                                             LoadedOpenCount(drive_cache, id))
        /\ handle_map' = AddHandle(id)
    /\ UNCHANGED <<objects, shadows, enq, readdir_wait, files, next_obj, now, running,
               drive_svc, task, remote, remote_seq>>

\* read(path, size, offset, fh): what the call ends with.  obj.local.present
\* is never 1, so a blacklisted caller gets EACCES; any other caller reaches
\* self.db.get_present_chunks, which OrchardDB does not define
read(id, blacklisted) ==
    IF LocalPresent(id) # 1
    THEN (IF blacklisted THEN "EACCES" ELSE "AttributeError")
    ELSE IF id \in DOMAIN files THEN "data" ELSE "EIO"

\* CHUNK_SIZE = 8 * 1024 * 1024
CHUNK_SIZE == 8388608

\* range(start_chunk, end_chunk + 1) of read
NeededChunks(size, offset) == (offset \div CHUNK_SIZE)..((offset + size - 1) \div CHUNK_SIZE)

\* the (size, offset) pairs a process reads with
ReadRanges == {<<1, 0>>, <<1048576, 52428800>>, <<2, 8388607>>}

\* read changes nothing in the store: it raises before its first enqueue
Read(path, size, offset, blacklisted) ==
    /\ \E res \in Resolved(path) :
        path_to_id' = res.path_to_id /\ \E id \in {res.obj} :
        /\ objects[id].type = "file"
        /\ read(id, blacklisted) \in {"EACCES", "AttributeError", "data", "EIO"}
    /\ UNCHANGED <<objects, shadows, drive_cache, files, actions, next_action_id, next_obj,
                   handle_map, now, running, drive_svc, task, remote, remote_seq, enq,
                   readdir_wait>>

\* write(path, data, offset, fh)
Write(path, data, offset) ==
    /\ \E res \in Resolved(path) :
        path_to_id' = res.path_to_id /\ \E id \in {res.obj} :
        /\ objects[id].type = "file"
        /\ HandleCount(id) > 0
        /\ LET placeholder == LocalPresent(id) = 0
               before == IF placeholder \/ id \notin DOMAIN files THEN <<>> ELSE files[id]
               bytes == WriteAt(before, data, offset)
           IN  /\ files' = Put(files, id, bytes)
               /\ drive_cache' = update_cache_entry(drive_cache, id, Len(bytes), 1,
                                                    LoadedOpenCount(drive_cache, id))
               /\ objects' = commit(objects, id, objects[id].name, objects[id].extension,
                                    objects[id].parent_id, Len(bytes))
    /\ UNCHANGED <<shadows, enq, readdir_wait, actions, next_action_id, next_obj,
               handle_map, now, running, drive_svc, task, remote, remote_seq>>

\* SELECT metadata FROM actions WHERE target_id = ? AND action_type IN
\* ('upload', 'update_content') ... ORDER BY created_at DESC LIMIT 1:
\* the file_hash of that row's metadata (None when there is no row)
LastQueuedHash(id) ==
    LET R == {a \in actions : a.target_id = id /\ a.action_type \in {"upload", "update_content"}}
    IN  IF R = {} THEN {NoHash}
        ELSE {a.metadata.file_hash : a \in {x \in R : \A b \in R : x.created_at >= b.created_at}}

\* whether release goes on to enqueue update_content for the object
ReleaseUploads(id, last_hash) ==
    /\ id \in DOMAIN objects
    /\ objects[id].type = "file"
    /\ ~IsTempName(objects[id].name)
    /\ LocalPresent(id) # 2
    /\ objects[id].dirty # 0
    /\ LocalOpenCount(id) = 0
    /\ id \in DOMAIN files
    /\ ~(id \in DOMAIN shadows /\ shadows[id].file_hash = _calculate_hash(id))
    /\ last_hash # _calculate_hash(id)

\* release(path, fh)
Release(id) ==
    /\ HandleCount(id) > 0
    /\ handle_map' = PopHandle(id)
    /\ \E last_hash \in LastQueuedHash(id) :
        IF ReleaseUploads(id, last_hash)
        THEN \E r \in Enqueued(actions, next_action_id, id, "update_content", "push", NULL,
                               [NoMeta EXCEPT !.file_hash = _calculate_hash(id),
                                              !.name = objects[id].name], 0, now) :
                /\ r.next_action_id <= MaxActionId + 1
                /\ actions' = r.actions
                /\ next_action_id' = r.next_action_id
        ELSE UNCHANGED <<actions, next_action_id>>
    /\ UNCHANGED <<path_to_id, objects, shadows, enq, readdir_wait, drive_cache, files, next_obj, now,
               running, drive_svc, task, remote, remote_seq>>

\* unlink(path), also the tail of rmdir
UnlinkObject(id) ==
    /\ objects' = [objects EXCEPT ![id].deleted = 1]
    /\ \E r \in Enqueued(actions, next_action_id, id, "delete", "push", NULL, NoMeta, 0, now) :
        /\ r.next_action_id <= MaxActionId + 1
                                + (IF objects[id].type = "folder" THEN MaxRmdirIds ELSE 0)
        /\ actions' = r.actions
        /\ next_action_id' = r.next_action_id
    /\ files' = IF objects[id].type = "file" THEN Drop(files, id) ELSE files
    /\ UNCHANGED <<shadows, enq, readdir_wait, drive_cache, next_obj, handle_map, now,
               running, drive_svc, task, remote, remote_seq>>

\* unlink(path): the path's own cache entry is dropped at the end
Unlink(path) ==
    \E r \in ResolveCached(objects, path_to_id, path) :
        /\ r.obj # NULL
        /\ objects[r.obj].type = "file"
        /\ UnlinkObject(r.obj)
        /\ path_to_id' = Drop(r.path_to_id, path)

\* rmdir(path): ENOTEMPTY while a non-deleted child exists; unlink(path)
\* resolves the path once more
Rmdir(path) ==
    \E r \in ResolveCached(objects, path_to_id, path) :
        /\ r.obj # NULL
        /\ objects[r.obj].type = "folder"
        /\ ~\E c \in DOMAIN objects : objects[c].parent_id = r.obj /\ objects[c].deleted = 0
        /\ \E u \in ResolveCached(objects, r.path_to_id, path) :
              /\ u.obj # NULL
              /\ UnlinkObject(u.obj)
              /\ path_to_id' = Drop(u.path_to_id, path)

\* getattr(path): ENOENT when the path does not resolve; the attributes are
\* read and nothing but the path cache is written
Getattr(path) ==
    /\ \E r \in ResolveCached(objects, path_to_id, path) :
        /\ r.obj # NULL
        /\ path_to_id' = r.path_to_id
    /\ UNCHANGED <<objects, shadows, drive_cache, files, actions, next_action_id, next_obj,
                   handle_map, now, running, drive_svc, task, remote, remote_seq, enq,
                   readdir_wait>>

\* rename(old_path, new_path): the object takes the new name and parent at
\* once (commit); a move intent when the parent changes, then a rename intent
\* when the last path component changes
Rename(old_path, new_parent, new_name) ==
    /\ old_path # <<>>
    /\ \E src \in ResolveCached(objects, path_to_id, old_path) :
       \E d \in ResolveCached(objects, src.path_to_id, new_parent) :
        /\ src.obj # NULL
        /\ d.obj # NULL
        /\ path_to_id' = Drop(d.path_to_id, old_path)
        /\ LET id == src.obj
               dest_parent == d.obj
               o == objects[id]
               old_name == old_path[Len(old_path)]
               is_move == o.parent_id # dest_parent
               is_rename == old_name # new_name
               split == o.type = "file" /\ SplitExt(new_name) # NULL
               moves == IF is_move
                        THEN Enqueued(actions, next_action_id, id, "move", "push", dest_parent,
                                      [NoMeta EXCEPT !.original_parent_id = o.parent_id], 0, now)
                        ELSE {[actions |-> actions, next_action_id |-> next_action_id]}
           IN  /\ objects' = commit(objects, id,
                                    IF split THEN SplitBase(new_name) ELSE new_name,
                                    IF split THEN SplitExt(new_name) ELSE NULL,
                                    dest_parent, o.size)
               /\ \E m \in moves :
                    \E r \in (IF is_rename
                              THEN Enqueued(m.actions, m.next_action_id, id, "rename", "push",
                                            new_name,
                                            [NoMeta EXCEPT !.from_name = old_name,
                                                           !.to_name = new_name], 0, now)
                              ELSE {m}) :
                       /\ r.next_action_id <= MaxActionId + MaxRenameIds + 1
                       /\ actions' = r.actions
                       /\ next_action_id' = r.next_action_id
    /\ UNCHANGED <<shadows, enq, readdir_wait, drive_cache, files, next_obj, handle_map,
               now, running, drive_svc, task, remote, remote_seq>>

\* rename(old_path, new_path) inside one folder, up to and including the
\* SELECT of its enqueue_action: the commit is done, the rows are fetched
RenameSelect(old_path, new_name) ==
    /\ IF enq["fuse"] = NoCall THEN TRUE ELSE enq["fuse"][1].written
    /\ old_path # <<>>
    /\ old_path[Len(old_path)] # new_name
    /\ \E src \in Resolved(old_path) :
      \E d \in ResolveCached(objects, src.path_to_id, SubSeq(old_path, 1, Len(old_path) - 1)) :
        LET id == src.obj
            o == objects[id]
            split == o.type = "file" /\ SplitExt(new_name) # NULL
        IN  /\ d.obj # NULL
            /\ path_to_id' = d.path_to_id
            /\ objects' = commit(objects, id,
                                 IF split THEN SplitBase(new_name) ELSE new_name,
                                 IF split THEN SplitExt(new_name) ELSE NULL,
                                 o.parent_id, o.size)
            /\ \E rows \in SelectPending(actions, id) :
                 enq' = [enq EXCEPT !["fuse"] =
                            <<[target_id |-> id, rows |-> rows, destination |-> new_name,
                               metadata |-> [NoMeta EXCEPT
                                               !.from_name = old_path[Len(old_path)],
                                               !.to_name = new_name],
                               old_path |-> old_path, written |-> FALSE]>>]
    /\ UNCHANGED <<shadows, readdir_wait, drive_cache, files, actions, next_action_id,
                   next_obj, handle_map, now, running, drive_svc, task, remote, remote_seq>>

\* the rest of that enqueue_action: the fold loop over the fetched rows, then
\* the UPDATE of the row found or the INSERT
RenameWrite ==
    /\ enq["fuse"] # NoCall
    /\ ~enq["fuse"][1].written
    /\ LET c == enq["fuse"][1]
           r == enqueue_action(actions, next_action_id, c.rows, c.target_id, "rename",
                               "push", c.destination, c.metadata, 0, now)
       IN  /\ r.next_action_id <= MaxActionId + MaxRenameIds + 1
           /\ actions' = r.actions
           /\ next_action_id' = r.next_action_id
           /\ enq' = [enq EXCEPT !["fuse"] = <<[c EXCEPT !.rows = <<>>, !.written = TRUE]>>]
           /\ path_to_id' = Drop(path_to_id, c.old_path)
    /\ UNCHANGED <<objects, shadows, readdir_wait, drive_cache, files, next_obj,
                   handle_map, now, running, drive_svc, task, remote, remote_seq>>

\* readdir(path): getattr(obj, 'last_synced', 0) is 0 for every loaded object,
\* so every readdir below the synthetic root asks for a pull
Readdir(path) ==
    /\ \E res \in Resolved(path) :
        path_to_id' = res.path_to_id /\ \E id \in {res.obj} :
        /\ objects[id].type = "folder"
        /\ \E r \in Enqueued(actions, next_action_id, id, "list_children", "pull", NULL,
                             NoMeta, 20, now) :
            /\ r.next_action_id <= MaxActionId + 1
            /\ actions' = r.actions
            /\ next_action_id' = r.next_action_id
    /\ UNCHANGED <<objects, shadows, enq, readdir_wait, drive_cache, files, next_obj,
               handle_map, now, running, drive_svc, task, remote, remote_seq>>

\* `for _ in range(20)`: the polls of readdir's wait loop
READDIR_POLLS == 20

\* getattr(updated_obj, 'last_synced', 0): the attribute is never loaded
LastSyncedAttr(id) == 0

\* the names readdir yields for the folder `id`
Dirents(objs, id) ==
    {".", ".."} \cup
    {IF objs[c].type = "file" /\ objs[c].extension # NULL
     THEN FullName(objs[c].name, objs[c].extension) ELSE objs[c].name :
        c \in {x \in DOMAIN objs : objs[x].parent_id = id /\ objs[x].deleted = 0}}

\* the wait loop is left only on the break
WaitOverWhenSynced(polls, last_synced) == last_synced > 0

\* the wait loop is left when range(20) is used up or on the break
WaitOver(polls, last_synced) == polls >= READDIR_POLLS \/ last_synced > 0

\* readdir(path) up to the start of its wait loop: the pull is requested
ReaddirEnter(path) ==
    /\ IF readdir_wait = NoCall THEN TRUE ELSE readdir_wait[1].returned
    /\ \E res \in Resolved(path) :
        path_to_id' = res.path_to_id /\ \E id \in {res.obj} :
        /\ objects[id].type = "folder"
        /\ \E r \in Enqueued(actions, next_action_id, id, "list_children", "pull", NULL,
                             NoMeta, 20, now) :
            /\ r.next_action_id <= MaxActionId + 1
            /\ actions' = r.actions
            /\ next_action_id' = r.next_action_id
        /\ readdir_wait' = <<[id |-> id, polls |-> 0, last_synced |-> 0,
                              returned |-> FALSE, dirents |-> {}]>>
    /\ UNCHANGED <<objects, shadows, enq, drive_cache, files, next_obj, handle_map, now,
                   running, drive_svc, task, remote, remote_seq>>

\* one turn of the loop: time.sleep(0.5), reload the object, look at last_synced
ReaddirPoll ==
    /\ readdir_wait # NoCall
    /\ ~readdir_wait[1].returned
    /\ ~WaitOver(readdir_wait[1].polls, readdir_wait[1].last_synced)
    /\ readdir_wait' = <<[readdir_wait[1] EXCEPT
                            !.polls = @ + 1,
                            !.last_synced = LastSyncedAttr(readdir_wait[1].id)]>>
    /\ UNCHANGED <<path_to_id, objects, shadows, enq, drive_cache, files, actions, next_action_id,
                   next_obj, handle_map, now, running, drive_svc, task, remote, remote_seq>>

\* after the loop: the children query and the yields
ReaddirReturn ==
    /\ readdir_wait # NoCall
    /\ ~readdir_wait[1].returned
    /\ WaitOver(readdir_wait[1].polls, readdir_wait[1].last_synced)
    /\ readdir_wait' = <<[readdir_wait[1] EXCEPT
                            !.returned = TRUE,
                            !.dirents = Dirents(objects, readdir_wait[1].id)]>>
    /\ UNCHANGED <<path_to_id, objects, shadows, enq, drive_cache, files, actions, next_action_id,
                   next_obj, handle_map, now, running, drive_svc, task, remote, remote_seq>>

\* setxattr(path, 'user.orchard.pinned', value): the row is created if absent
\* and pinned stored; pinning asks for the content; unpinning a file that is
\* not dirty truncates the cache file and marks it missing (the statement
\* after that names a table the schema lacks, so the call then fails)
Setxattr(path, is_pinned) ==
    /\ \E res \in Resolved(path) :
        path_to_id' = res.path_to_id /\ \E id \in {res.obj} :
        LET val_int == IF is_pinned THEN 1 ELSE 0
            ignored == IF id \in DOMAIN drive_cache THEN drive_cache
                       ELSE Put(drive_cache, id, CacheRow(0, 0, 0))
            stored == [ignored EXCEPT ![id].pinned = val_int]
        IN  IF is_pinned
            THEN /\ drive_cache' = stored
                 /\ files' = files
                 /\ IF LocalPresent(id) = 0 \/ LocalPresent(id) = 2
                    THEN \E r \in Enqueued(actions, next_action_id, id, "ensure_latest", "pull",
                                           NULL, NoMeta, 5, now) :
                             /\ r.next_action_id <= MaxActionId + 1
                             /\ actions' = r.actions
                             /\ next_action_id' = r.next_action_id
                    ELSE UNCHANGED <<actions, next_action_id>>
            ELSE /\ UNCHANGED <<actions, next_action_id>>
                 /\ IF objects[id].dirty # 0
                    THEN drive_cache' = stored /\ files' = files
                    ELSE /\ files' = IF id \in DOMAIN files THEN Put(files, id, <<>>) ELSE files
                         /\ drive_cache' = [stored EXCEPT ![id].present_locally = 0]
    /\ UNCHANGED <<objects, shadows, enq, readdir_wait, next_obj, handle_map, now,
               running, drive_svc, task, remote, remote_seq>>

\* OrchardTray._sync_now
SyncNow ==
    /\ \E r \in Enqueued(actions, next_action_id, "drive_root", "list_children", "pull", NULL,
                         NoMeta, 10, now) :
        /\ r.next_action_id <= MaxActionId + 1
        /\ actions' = r.actions
        /\ next_action_id' = r.next_action_id
    /\ UNCHANGED <<path_to_id, objects, shadows, enq, readdir_wait, drive_cache, files, next_obj,
               handle_map, now, running, drive_svc, task, remote, remote_seq>>


(* ------------------------- the remote (iCloud) ------------------------ *)
RemoteItem(type, parent, name, ext, etag, data) ==
    [type |-> type, parent |-> parent, name |-> name, extension |-> ext,
     etag |-> etag, data |-> data]

\* ids the remote and os.urandom hand out; past the universe, one overflow id
\* (the actions that draw ids are guarded by the bounds)
FreshCloudId(n) == IF n \in DOMAIN CloudIds THEN CloudIds[n] ELSE "c_overflow"
FreshEtag(n) == IF n \in DOMAIN Etags THEN Etags[n] ELSE "e_overflow"
NewObjId(n) == IF n \in DOMAIN ObjIds THEN ObjIds[n] ELSE "o_overflow"

\* list_directory(folder): the cloud ids of the folder's items
list_directory(rem, folder) == {c \in DOMAIN rem : rem[c].parent = folder}

\* get_item_metadata(item_id, parent_id): list the parent and match by id;
\* without a parent id, the direct by-id lookup
get_item_metadata(rem, cloud_id, parent_cloud_id) ==
    IF parent_cloud_id # NULL
    THEN (IF cloud_id \in list_directory(rem, parent_cloud_id) THEN {cloud_id} ELSE {})
    ELSE (IF cloud_id \in DOMAIN rem THEN {cloud_id} ELSE {})

\* an item of the same name and extension already sits in the folder
NameTaken(rem, folder, name, ext) ==
    \E c \in list_directory(rem, folder) : rem[c].name = name /\ rem[c].extension = ext

\* the state a handler works on, and its two ways out
DbState ==
    [objects |-> objects, drive_cache |-> drive_cache, files |-> files,
     actions |-> actions, next_action_id |-> next_action_id, next_obj |-> next_obj,
     remote |-> remote, remote_seq |-> remote_seq]

Done(st) == [st |-> st, raised |-> NULL]
Raise(st, msg) == [st |-> st, raised |-> msg]

\* what a call on self.drive_svc raises: err is the remote's answer (NULL: none)
RemoteCall(err) ==
    IF drive_svc THEN err ELSE "'NoneType' object has no attribute"

\* parent_row['cloud_id'], or the zone root for a child of drive_root
ParentCloudId(objs, parent_id) ==
    IF parent_id = "drive_root" THEN CLOUD_DOCS_ZONE_ID_ROOT
    ELSE IF parent_id \in DOMAIN objs THEN objs[parent_id].cloud_id
    ELSE NULL

\* SyncEngine._mark_synced
_mark_synced(objs, id) ==
    [objs EXCEPT ![id] = [@ EXCEPT !.dirty = 0, !.sync_state = SYNC_STATE_SYNCHRONIZED,
                                   !.last_synced = now]]

\* upload_file succeeded: the remote holds a new document
RemoteUpload(st, id, parent_cloud_id) ==
    LET c == FreshCloudId(st.remote_seq + 1)
        e == FreshEtag(st.remote_seq + 1)
        o == st.objects[id]
    IN  [st EXCEPT
            !.remote = Put(st.remote, c, RemoteItem("FILE", parent_cloud_id, o.name,
                                                    o.extension, e, st.files[id])),
            !.remote_seq = st.remote_seq + 1,
            \* UPDATE objects SET cloud_id, etag, size, name, extension,
            \* missing_from_cloud = 0, dirty = 0, sync_state, last_synced
            !.objects = [st.objects EXCEPT ![id] =
                            [@ EXCEPT !.cloud_id = c, !.etag = e,
                                      !.size = Len(st.files[id]),
                                      !.missing_from_cloud = 0, !.dirty = 0,
                                      !.sync_state = SYNC_STATE_SYNCHRONIZED,
                                      !.last_synced = now]]]

\* SyncEngine._handle_upload for a DriveFile whose cache file exists
UploadFile(st, id, parent_cloud_id, err) ==
    LET o == st.objects[id]
        colliders == {c \in list_directory(st.remote, parent_cloud_id) :
                         st.remote[c].name = FullName(o.name, o.extension)
                         \/ st.remote[c].name = o.name}
    IN  IF RemoteCall(err) # NULL THEN Raise(st, RemoteCall(err))
        ELSE IF ~NameTaken(st.remote, parent_cloud_id, o.name, o.extension)
        THEN Done(RemoteUpload(st, id, parent_cloud_id))
        \* 412 Precondition Failed: delete the conflicting item, upload again
        ELSE LET c == CHOOSE x \in colliders : TRUE
                 st1 == [st EXCEPT !.remote = Drop(st.remote, c)]
             IN  IF NameTaken(st1.remote, parent_cloud_id, o.name, o.extension)
                 THEN Raise(st1, "412 Precondition Failed")
                 ELSE Done(RemoteUpload(st1, id, parent_cloud_id))

\* SyncEngine._handle_upload
_handle_upload(st, id, err) ==
    LET o == st.objects[id]
        parent_cloud_id == ParentCloudId(st.objects, o.parent_id)
    IN  IF parent_cloud_id = NULL
        THEN Raise(st, "Parent object has no cloud ID for upload.")
        ELSE IF o.type = "file"
        THEN (IF id \notin DOMAIN st.files
              THEN (IF o.deleted # 0 THEN Done(st) ELSE Raise(st, "Local file not found"))
              ELSE UploadFile(st, id, parent_cloud_id, err))
        ELSE IF RemoteCall(err) # NULL THEN Raise(st, RemoteCall(err))
        ELSE \* create_folder, enqueue a pull of the parent, _mark_synced
             LET c == FreshCloudId(st.remote_seq + 1)
                 e == FreshEtag(st.remote_seq + 1)
                 r == enqueue_action(st.actions, st.next_action_id,
                                     CHOOSE rows \in SelectPending(st.actions, o.parent_id) : TRUE,
                                     o.parent_id, "list_children", "pull", NULL, NoMeta, 0, now)
             IN  Done([st EXCEPT
                        !.remote = Put(st.remote, c,
                                       RemoteItem("FOLDER", parent_cloud_id,
                                                  FullName(o.name, o.extension), NULL, e, <<>>)),
                        !.remote_seq = st.remote_seq + 1,
                        !.actions = r.actions,
                        !.next_action_id = r.next_action_id,
                        !.objects = _mark_synced(st.objects, id)])

\* SyncEngine._handle_update_content
_handle_update_content(st, id, err) ==
    LET o == st.objects[id]
        parent_cloud_id == IF o.cloud_parent_id # NULL THEN o.cloud_parent_id
                           ELSE ParentCloudId(st.objects, o.parent_id)
        meta == get_item_metadata(st.remote, o.cloud_id, parent_cloud_id)
        st1 == [st EXCEPT !.remote = Drop(st.remote, o.cloud_id)]
        parentId == IF parent_cloud_id # NULL THEN parent_cloud_id
                    ELSE st.remote[o.cloud_id].parent
    IN  IF o.type # "file" THEN Done(st)
        ELSE IF o.cloud_id = NULL THEN _handle_upload(st, id, err)
        ELSE IF RemoteCall(err) # NULL THEN Raise(st, RemoteCall(err))
        ELSE IF meta = {}
        THEN Done([st EXCEPT !.objects = [st.objects EXCEPT ![id].missing_from_cloud = 1]])
        \* Delete Old -> Upload New
        ELSE IF id \notin DOMAIN st.files THEN Raise(st1, "Local file not found")
        ELSE IF NameTaken(st1.remote, parentId, o.name, o.extension)
        THEN Raise(st1, "412 Precondition Failed")
        ELSE Done(RemoteUpload(st1, id, parentId))

\* a delete handler that cleans the store before the remote has answered
_handle_delete_eager(st, id, err) ==
    LET o == st.objects[id]
        cleaned == [st EXCEPT !.objects = Drop(st.objects, id),
                              !.drive_cache = Drop(st.drive_cache, id)]
    IN  IF o.cloud_id = NULL THEN Done(st)
        ELSE IF RemoteCall(err) # NULL THEN Raise(cleaned, RemoteCall(err))
        ELSE Done([cleaned EXCEPT !.remote = Drop(st.remote, o.cloud_id)])

\* SyncEngine._handle_delete
_handle_delete(st, id, err) ==
    LET o == st.objects[id]
    IN  IF o.cloud_id = NULL THEN Done(st)
        ELSE IF RemoteCall(err) # NULL THEN Raise(st, RemoteCall(err))
        ELSE Done([st EXCEPT !.remote = Drop(st.remote, o.cloud_id),
                             !.objects = Drop(st.objects, id),
                             !.drive_cache = Drop(st.drive_cache, id)])

\* rename_item / move_item accepted: the item carries the new name or parent,
\* and the remote versions it with a new etag
RemoteRename(rem, seq, c, new_name) ==
    [rem EXCEPT ![c] = [@ EXCEPT
        !.name = IF rem[c].type = "FILE" /\ SplitExt(new_name) # NULL
                 THEN SplitBase(new_name) ELSE new_name,
        !.extension = IF rem[c].type = "FILE" THEN SplitExt(new_name) ELSE NULL,
        !.etag = FreshEtag(seq + 1)]]

RemoteMove(rem, seq, c, target_cloud_id) ==
    [rem EXCEPT ![c] = [@ EXCEPT !.parent = target_cloud_id, !.etag = FreshEtag(seq + 1)]]

\* SyncEngine._handle_rename
_handle_rename(st, id, new_name, err) ==
    LET o == st.objects[id]
        parent_cloud_id == IF o.cloud_parent_id # NULL THEN o.cloud_parent_id
                           ELSE ParentCloudId(st.objects, o.parent_id)
        meta == get_item_metadata(st.remote, o.cloud_id, parent_cloud_id)
    IN  IF o.cloud_id = NULL THEN Done(st)
        ELSE IF parent_cloud_id = NULL
        THEN Raise(st, "Parent object has no cloud ID for renaming object")
        ELSE IF RemoteCall(err) # NULL THEN Raise(st, RemoteCall(err))
        ELSE IF meta = {}
        THEN Done([st EXCEPT !.objects = [st.objects EXCEPT ![id].missing_from_cloud = 1]])
        ELSE Done([st EXCEPT
                    !.remote = RemoteRename(st.remote, st.remote_seq, o.cloud_id, new_name),
                    !.remote_seq = st.remote_seq + 1,
                    \* UPDATE objects SET name = new_name, then _mark_synced
                    !.objects = _mark_synced([st.objects EXCEPT ![id].name = new_name], id)])

\* SELECT metadata FROM actions WHERE target_id = ? AND action_type = 'move'
\* ORDER BY created_at DESC LIMIT 1: the original_parent_id it records
MoveOrigin(acts, id) ==
    LET R == {a \in acts : a.target_id = id /\ a.action_type = "move"}
    IN  {a.metadata.original_parent_id :
            a \in {x \in R : \A b \in R : x.created_at >= b.created_at}}

\* the parent _handle_move lists for the metadata lookup: cloud_parent_id, or
\* the cloud id of the original parent the latest move row records
OriginalParentCloudId(st, id) ==
    IF st.objects[id].cloud_parent_id # NULL THEN st.objects[id].cloud_parent_id
    ELSE ParentCloudId(st.objects, CHOOSE p \in MoveOrigin(st.actions, id) : TRUE)

\* SyncEngine._handle_move
_handle_move(st, id, new_parent_id, err) ==
    LET o == st.objects[id]
        origin == CHOOSE p \in MoveOrigin(st.actions, id) : TRUE
        original_parent_cloud_id == OriginalParentCloudId(st, id)
        meta == get_item_metadata(st.remote, o.cloud_id, original_parent_cloud_id)
        target_cloud_id == ParentCloudId(st.objects, new_parent_id)
    IN  IF o.cloud_id = NULL THEN Done(st)
        ELSE IF o.cloud_parent_id = NULL /\ (MoveOrigin(st.actions, id) = {} \/ origin = NULL)
        THEN Raise(st, "Original parent ID not found in metadata for move task")
        ELSE IF original_parent_cloud_id = NULL
        THEN Raise(st, "Original parent object has no cloud ID for moving object")
        ELSE IF RemoteCall(err) # NULL THEN Raise(st, RemoteCall(err))
        ELSE IF meta = {}
        THEN Done([st EXCEPT !.objects = [st.objects EXCEPT ![id].missing_from_cloud = 1]])
        ELSE IF target_cloud_id = NULL
        THEN Raise(st, "Target parent cloud ID not found for parent")
        ELSE Done([st EXCEPT
                    !.remote = RemoteMove(st.remote, st.remote_seq, o.cloud_id, target_cloud_id),
                    !.remote_seq = st.remote_seq + 1,
                    \* UPDATE objects SET parent_id, cloud_parent_id, then _mark_synced
                    !.objects = _mark_synced([st.objects EXCEPT
                                                 ![id].parent_id = new_parent_id,
                                                 ![id].cloud_parent_id = target_cloud_id], id)])

\* SyncEngine._handle_download
_handle_download(st, id, err) ==
    LET o == st.objects[id]
    IN  IF o.type # "file" \/ o.cloud_id = NULL THEN Done(st)
        ELSE IF RemoteCall(err) # NULL THEN Raise(st, RemoteCall(err))
        ELSE IF o.cloud_id \notin DOMAIN st.remote
        THEN Raise(st, "Could not find download URL for file")
        ELSE Done([st EXCEPT !.files = Put(st.files, id, st.remote[o.cloud_id].data),
                             !.objects = _mark_synced(st.objects, id)])

\* SyncEngine._handle_ensure_latest
_handle_ensure_latest(st, id, err) ==
    LET o == st.objects[id]
        row_cloud_id == ParentCloudId(st.objects, o.parent_id)
        parent_cloud_id == IF row_cloud_id = NULL THEN o.cloud_parent_id ELSE row_cloud_id
        meta == get_item_metadata(st.remote, o.cloud_id, parent_cloud_id)
        item == st.remote[o.cloud_id]
        needs_download == LoadedPresent(st.drive_cache, id) = 0 \/ o.etag # item.etag
    IN  IF o.type # "file" \/ o.cloud_id = NULL THEN Done(st)
        ELSE IF RemoteCall(err) # NULL THEN Raise(st, RemoteCall(err))
        ELSE IF meta = {}
        THEN Done([st EXCEPT !.objects = [st.objects EXCEPT ![id].missing_from_cloud = 1]])
        ELSE IF needs_download
        THEN Done([st EXCEPT
                    !.files = Put(st.files, id, item.data),
                    !.objects = [st.objects EXCEPT ![id] =
                                    [@ EXCEPT !.etag = item.etag, !.size = Len(item.data),
                                              !.sync_state = SYNC_STATE_SYNCHRONIZED,
                                              !.last_synced = now,
                                              !.missing_from_cloud = 0]],
                    !.drive_cache = IF id \in DOMAIN st.drive_cache
                                    THEN [st.drive_cache EXCEPT ![id] =
                                            [@ EXCEPT !.present_locally = 1,
                                                      !.size = Len(item.data)]]
                                    ELSE st.drive_cache])
        ELSE Done([st EXCEPT !.objects = _mark_synced(st.objects, id)])


(* -------------------- SyncEngine._pull_drive_folder ------------------- *)
\* raw_name with '.ext' stripped when it ends with it
PulledName(raw_name, ext) ==
    IF ext # NULL /\ SplitExt(raw_name) = ext THEN SplitBase(raw_name) ELSE raw_name

\* the INSERT for an item the store does not know by its cloud id
PulledRow(item, c_id, cloud_id, local_parent_id) ==
    [ObjectRow(IF item.type = "FILE" THEN "file" ELSE "folder", local_parent_id,
               PulledName(item.name, item.extension), item.extension)
        EXCEPT !.cloud_id = c_id, !.cloud_parent_id = cloud_id, !.etag = item.etag,
               !.size = Len(item.data), !.sync_state = SYNC_STATE_SYNCHRONIZED]

\* the UPDATE for a known item whose etag differs
PulledUpdate(row, item, cloud_id, local_parent_id) ==
    [row EXCEPT !.etag = item.etag, !.name = PulledName(item.name, item.extension),
                !.size = Len(item.data), !.extension = item.extension,
                !.parent_id = local_parent_id, !.cloud_parent_id = cloud_id,
                !.missing_from_cloud = 0]

\* the closing loop: children with a cloud id the listing did not return
RemoteDeletions(objs, current_cloud_ids, local_parent_id) ==
    [id \in DOMAIN objs |->
        IF /\ objs[id].parent_id = local_parent_id
           /\ objs[id].cloud_id # NULL
           /\ objs[id].cloud_id \notin current_cloud_ids
        THEN (IF objs[id].dirty = 1 /\ objs[id].missing_from_cloud = 0
              THEN [objs[id] EXCEPT !.sync_state = SYNC_STATE_CONFLICT]
              ELSE [objs[id] EXCEPT !.deleted = 1, !.sync_state = SYNC_STATE_SYNCHRONIZED])
        ELSE objs[id]]

RECURSIVE _pull_drive_folder(_, _, _)
RECURSIVE PullItems(_, _, _, _)

\* the body of `for item in items`
PullItem(st, c_id, cloud_id, local_parent_id) ==
    LET item == st.remote[c_id]
        known == {id \in DOMAIN st.objects : st.objects[id].cloud_id = c_id}
        new_id == NewObjId(st.next_obj)
        inserted == [st EXCEPT
                        !.objects = Put(st.objects, new_id,
                                        PulledRow(item, c_id, cloud_id, local_parent_id)),
                        !.drive_cache = Put(st.drive_cache, new_id,
                                            CacheRow(IF item.type = "FILE"
                                                     THEN Len(item.data) ELSE 0, 0, 0)),
                        !.next_obj = st.next_obj + 1]
    IN  IF known = {}
        THEN (IF item.type = "FOLDER" THEN _pull_drive_folder(inserted, c_id, new_id)
              ELSE inserted)
        ELSE LET id == CHOOSE x \in known : TRUE
                 row == st.objects[id]
                 updated == [st EXCEPT !.objects =
                                [st.objects EXCEPT ![id] =
                                    PulledUpdate(row, item, cloud_id, local_parent_id)]]
                 r == enqueue_action(st.actions, st.next_action_id,
                                     CHOOSE rows \in SelectPending(st.actions, id) : TRUE,
                                     id, "download", "pull", NULL, NoMeta, 0, now)
             IN  IF row.etag # item.etag
                 THEN (IF item.type = "FILE"
                       THEN (IF LoadedPresent(st.drive_cache, id) # 0
                             THEN [updated EXCEPT !.actions = r.actions,
                                                  !.next_action_id = r.next_action_id]
                             ELSE updated)
                       ELSE _pull_drive_folder(updated, c_id, id))
                 ELSE IF row.missing_from_cloud # 0
                 THEN [st EXCEPT !.objects = [st.objects EXCEPT ![id].missing_from_cloud = 0]]
                 ELSE st

PullItems(st, items, cloud_id, local_parent_id) ==
    IF items = {} THEN st
    ELSE LET c_id == CHOOSE x \in items : TRUE
         IN  PullItems(PullItem(st, c_id, cloud_id, local_parent_id), items \ {c_id},
                       cloud_id, local_parent_id)

_pull_drive_folder(st, cloud_id, local_parent_id) ==
    LET items == list_directory(st.remote, cloud_id)
        st1 == PullItems(st, items, cloud_id, local_parent_id)
    IN  [st1 EXCEPT !.objects = RemoteDeletions(st1.objects, items, local_parent_id)]

(* ------------------------ SyncEngine._process_task -------------------- *)
_process_task(st, t, err) ==
    LET obj_id == t.target_id
        action == t.action_type
    IN  IF action = "list_children" /\ obj_id = "drive_root"
        \* a failing list_directory is logged and the pull abandoned
        THEN (IF RemoteCall(err) # NULL THEN Done(st)
              ELSE Done(_pull_drive_folder(st, CLOUD_DOCS_ZONE_ID_ROOT, "drive_root")))
        ELSE IF obj_id \notin DOMAIN st.objects THEN Done(st)
        ELSE IF t.direction = "push"
        THEN CASE action = "upload" -> _handle_upload(st, obj_id, err)
               [] action = "update_content" -> _handle_update_content(st, obj_id, err)
               [] action = "rename" -> _handle_rename(st, obj_id, t.destination, err)
               [] action = "move" -> _handle_move(st, obj_id, t.destination, err)
               [] action = "delete" -> _handle_delete(st, obj_id, err)
               [] OTHER -> Done(st)
        ELSE CASE action = "download" -> _handle_download(st, obj_id, err)
               [] action = "ensure_latest" -> _handle_ensure_latest(st, obj_id, err)
               [] OTHER -> Done(st)

\* OrchardDB.complete_action
complete_action(acts, action_id) == {a \in acts : a.action_id # action_id}

\* variant: the row is given up on reaching the cap
RetriesAtCap(retry_count) == retry_count >= MAX_RETRIES

\* does fail_action give the row up at this retry count
RetriesExceeded(retry_count) == retry_count > MAX_RETRIES

\* OrchardDB.fail_action, on the tables (objects, actions)
fail_action(objs, acts, action_id, target_obj_id, error_msg) ==
    LET upd == {IF a.action_id = action_id
                THEN [a EXCEPT !.status = "failed", !.last_error = error_msg,
                               !.retry_count = a.retry_count + 1]
                ELSE a : a \in acts}
        row == {a \in upd : a.action_id = action_id}
    IN  IF \E a \in row : RetriesExceeded(a.retry_count)
        THEN [objects |-> IF target_obj_id \in DOMAIN objs
                          THEN [objs EXCEPT ![target_obj_id].sync_state = SYNC_STATE_ERROR]
                          ELSE objs,
              actions |-> {a \in upd : a.action_id # action_id}]
        ELSE [objects |-> objs, actions |-> upd]


(* --------------------------- SyncEngine._loop ------------------------- *)
\* created_at + BASE_BACKOFF_SECONDS * POWER(2, retry_count)
next_retry_time(a) == a.created_at + BASE_BACKOFF_SECONDS * Pow2(a.retry_count)

\* variant: a failed row is retried without waiting for its backoff
NextRetryableNoBackoff(acts, t) ==
    LET pending == {a \in acts : a.status = "pending"}
        failed == {a \in acts : a.status = "failed"}
    IN  IF pending # {}
        THEN {a \in pending : \A b \in pending : a.created_at <= b.created_at}
        ELSE {a \in failed : \A b \in failed :
                 \/ next_retry_time(a) < next_retry_time(b)
                 \/ next_retry_time(a) = next_retry_time(b) /\ a.created_at <= b.created_at}

\* _get_next_retryable_action: the rows its two SELECTs can return first
NextRetryable(acts, t) ==
    LET pending == {a \in acts : a.status = "pending"}
        failed == {a \in acts : a.status = "failed" /\ next_retry_time(a) <= t}
    IN  IF pending # {}
        THEN {a \in pending : \A b \in pending : a.created_at <= b.created_at}
        ELSE {a \in failed : \A b \in failed :
                 \/ next_retry_time(a) < next_retry_time(b)
                 \/ next_retry_time(a) = next_retry_time(b) /\ a.created_at <= b.created_at}

\* SyncEngine.start: _loop's first line, _pull_metadata
EngineStart ==
    /\ ~running
    /\ running' = TRUE
    /\ IF drive_svc
       THEN \E r \in Enqueued(actions, next_action_id, "drive_root", "list_children", "pull",
                              NULL, NoMeta, 0, now) :
                /\ r.next_action_id <= MaxActionId + 1
                /\ actions' = r.actions
                /\ next_action_id' = r.next_action_id
       ELSE UNCHANGED <<actions, next_action_id>>
    /\ UNCHANGED <<path_to_id, objects, shadows, enq, readdir_wait, drive_cache, files, next_obj,
               handle_map, now, drive_svc, task, remote, remote_seq>>

\* one turn of the loop up to the try: pick a row, mark it processing
Dispatch ==
    /\ running
    /\ task = NoTask
    /\ \E row \in NextRetryable(actions, now) :
        /\ actions' = {IF a.action_id = row.action_id THEN [a EXCEPT !.status = "processing"]
                       ELSE a : a \in actions}
        /\ task' = <<row>>
    /\ UNCHANGED <<path_to_id, objects, shadows, enq, readdir_wait, drive_cache, files,
               next_action_id, next_obj, handle_map, now, running, drive_svc,
               remote, remote_seq>>

\* the try of the loop: _process_task, then complete_action or fail_action
Execute(err) ==
    /\ running
    /\ task # NoTask
    /\ LET t == task[1]
           r == _process_task(DbState, t, err)
           failed == fail_action(r.st.objects, r.st.actions, t.action_id, t.target_id, r.raised)
       IN  /\ r.st.next_action_id = next_action_id \/ r.st.next_action_id <= MaxActionId + 1
           /\ r.st.next_obj <= MaxObjects + MaxPulled + 1
           /\ r.st.remote_seq <= MaxRemoteSeq
           /\ objects' = IF r.raised = NULL THEN r.st.objects ELSE failed.objects
           /\ actions' = IF r.raised = NULL THEN complete_action(r.st.actions, t.action_id)
                         ELSE failed.actions
           /\ drive_cache' = r.st.drive_cache
           /\ files' = r.st.files
           /\ next_action_id' = r.st.next_action_id
           /\ next_obj' = r.st.next_obj
           /\ remote' = r.st.remote
           /\ remote_seq' = r.st.remote_seq
    /\ task' = NoTask
    /\ UNCHANGED <<path_to_id, shadows, enq, readdir_wait, handle_map, now, running, drive_svc>>

\* upload_file reads the cache file: the bytes an upload or update_content
\* sends, taken while the call is still in flight
Transmit ==
    /\ running
    /\ task # NoTask
    /\ task[1].action_type \in {"upload", "update_content"}
    /\ "sent" \notin DOMAIN task[1]
    /\ task[1].target_id \in DOMAIN files
    /\ task' = <<[k \in DOMAIN task[1] \cup {"sent"} |->
                    IF k = "sent" THEN files[task[1].target_id] ELSE task[1][k]]>>
    /\ UNCHANGED <<path_to_id, objects, shadows, enq, readdir_wait, drive_cache, files, actions,
                   next_action_id, next_obj, handle_map, now, running, drive_svc,
                   remote, remote_seq>>

\* the rest of that handler once the remote has answered: the remote holds
\* the bytes sent, the UPDATE of objects, complete_action
Finish ==
    /\ running
    /\ task # NoTask
    /\ "sent" \in DOMAIN task[1]
    /\ LET t == task[1]
           r == _process_task([DbState EXCEPT !.files = Put(files, t.target_id, t.sent)],
                              t, NULL)
           failed == fail_action(r.st.objects, r.st.actions, t.action_id, t.target_id, r.raised)
       IN  /\ r.st.next_action_id = next_action_id \/ r.st.next_action_id <= MaxActionId + 1
           /\ r.st.remote_seq <= MaxRemoteSeq
           /\ objects' = IF r.raised = NULL THEN r.st.objects ELSE failed.objects
           /\ actions' = IF r.raised = NULL THEN complete_action(r.st.actions, t.action_id)
                         ELSE failed.actions
           /\ next_action_id' = r.st.next_action_id
           /\ remote' = r.st.remote
           /\ remote_seq' = r.st.remote_seq
    /\ task' = NoTask
    /\ UNCHANGED <<path_to_id, shadows, enq, readdir_wait, drive_cache, files, next_obj, handle_map,
                   now, running, drive_svc>>

\* the else of the loop, repeated: time.sleep(1) until a failed row is due
AwaitRetry ==
    /\ running
    /\ task = NoTask
    /\ NextRetryable(actions, now) = {}
    /\ \E a \in actions :
        /\ a.status = "failed"
        /\ \A b \in actions : b.status = "failed" => next_retry_time(a) <= next_retry_time(b)
        /\ now' = next_retry_time(a)
    /\ UNCHANGED <<path_to_id, objects, shadows, enq, readdir_wait, drive_cache, files, actions,
               next_action_id, next_obj, handle_map, running, drive_svc, task,
               remote, remote_seq>>

\* a second passes
Tick ==
    /\ now < MaxTime
    /\ now' = now + 1
    /\ UNCHANGED <<path_to_id, objects, shadows, enq, readdir_wait, drive_cache, files, actions,
               next_action_id, next_obj, handle_map, running, drive_svc, task,
               remote, remote_seq>>

\* the process dies and is started again: OrchardDB._init_db (schema and the
\* two root rows, INSERT OR IGNORE), OrchardFS.__init__ (open_count = 0),
\* SyncEngine.__init__ (drive_svc set when the session authenticates)
Restart(online) ==
    /\ running
    /\ running' = FALSE
    /\ task' = NoTask
    /\ handle_map' = <<>>
    /\ drive_svc' = online
    /\ drive_cache' = [id \in DOMAIN drive_cache |-> [drive_cache[id] EXCEPT !.open_count = 0]]
    /\ path_to_id' = NoPaths
    /\ UNCHANGED <<objects, shadows, enq, readdir_wait, files, actions, next_action_id,
               next_obj, now, remote, remote_seq>>

\* another device replaces the content of a remote file
RemoteModify(c, data) ==
    /\ c \in DOMAIN remote
    /\ remote[c].type = "FILE"
    /\ remote_seq < MaxRemoteSeq
    /\ remote' = [remote EXCEPT ![c] = [@ EXCEPT !.etag = FreshEtag(remote_seq + 1),
                                                 !.data = data]]
    /\ remote_seq' = remote_seq + 1
    /\ UNCHANGED <<path_to_id, objects, shadows, enq, readdir_wait, drive_cache, files, actions,
               next_action_id, next_obj, handle_map, now, running, drive_svc, task>>

\* another device deletes a remote file
RemoteDelete(c) ==
    /\ c \in DOMAIN remote
    /\ remote[c].type = "FILE"
    /\ remote' = Drop(remote, c)
    /\ UNCHANGED <<path_to_id, objects, shadows, enq, readdir_wait, drive_cache, files, actions,
               next_action_id, next_obj, handle_map, now, running, drive_svc, task,
               remote_seq>>

(* ------------- enqueue_action run by concurrent threads --------------- *)
\* a FUSE worker thread and the GTK thread; each has its own connection
Threads == {"fuse", "tray"}

\* the folders a thread asks a listing for: readdir on a resolved folder
\* (priority 20), the tray's "sync now" on drive_root (priority 10)
ListingTargets(th) ==
    IF th = "tray" THEN {"drive_root"}
    ELSE UNION {_resolve(path) : path \in {<<>>} \cup FolderPaths}

\* enqueue_action up to and including its SELECT
EnqueueSelect(th) ==
    /\ enq[th] = NoCall
    /\ \E target_id \in ListingTargets(th) : \E rows \in SelectPending(actions, target_id) :
          enq' = [enq EXCEPT ![th] = <<[target_id |-> target_id, rows |-> rows,
                                        priority |-> IF th = "tray" THEN 10 ELSE 20]>>]
    /\ UNCHANGED <<path_to_id, objects, shadows, drive_cache, files, actions, next_action_id,
               next_obj, handle_map, now, running, drive_svc, task, remote,
               remote_seq, readdir_wait>>

\* the rest of enqueue_action: the dedup loop over the fetched rows, the INSERT
EnqueueWrite(th) ==
    /\ enq[th] # NoCall
    /\ LET c == enq[th][1]
           r == enqueue_action(actions, next_action_id, c.rows, c.target_id,
                               "list_children", "pull", NULL, NoMeta, c.priority, now)
       IN  /\ r.next_action_id <= MaxActionId + 1
           /\ actions' = r.actions
           /\ next_action_id' = r.next_action_id
    /\ enq' = [enq EXCEPT ![th] = NoCall]
    /\ UNCHANGED <<path_to_id, objects, shadows, drive_cache, files, next_obj, handle_map, now,
               running, drive_svc, task, remote, remote_seq, readdir_wait>>

(* ---------------------------- specifications -------------------------- *)
\* the store after _init_db on an empty directory, the engine not yet started,
\* an authenticated session, the remote empty or holding one file
Init ==
    /\ objects = [id \in {"root", "drive_root"} |->
                    IF id = "root" THEN ObjectRow("folder", NULL, "root", NULL)
                    ELSE ObjectRow("folder", "root", "Drive", NULL)]
    /\ shadows = <<>>
    /\ drive_cache = <<>>
    /\ files = <<>>
    /\ actions = {}
    /\ next_action_id = 1
    /\ next_obj = 1
    /\ handle_map = <<>>
    /\ now = 0
    /\ running = FALSE
    /\ drive_svc = TRUE
    /\ task = NoTask
    /\ remote \in {<<>>, [c \in {"c1"} |-> RemoteItem("FILE", CLOUD_DOCS_ZONE_ID_ROOT,
                                                      "a", "txt", "e1", <<1>>)]}
    /\ remote_seq = 1
    /\ enq = [th \in Threads |-> NoCall]
    /\ readdir_wait = NoCall
    /\ path_to_id = NoPaths

\* the adapter's operations, each run to completion
Adapter ==
    \/ \E pp \in ParentPaths, name \in FileNames : Create(pp, name)
    \/ \E name \in FolderNames : Mkdir(<<>>, name)
    \/ \E path \in FilePaths, blacklisted \in BOOLEAN : Open(path, blacklisted)
    \/ \E path \in FilePaths, data \in WriteData, offset \in WriteOffsets :
          Write(path, data, offset)
    \/ \E id \in DOMAIN handle_map : Release(id)
    \/ \E path \in FilePaths : Unlink(path)
    \/ \E path \in FolderPaths : Rmdir(path)
    \/ \E path \in {<<>>} \cup FolderPaths : Readdir(path)
    \/ SyncNow

\* one editing session on one file below /Drive
Session ==
    \/ \E name \in FileNames : Create(<<>>, name)
    \/ \E path \in FilePaths, data \in WriteData, offset \in WriteOffsets :
          Write(path, data, offset)
    \/ \E id \in DOMAIN handle_map : Release(id)

\* the engine against a remote that answers every call
EngineOk ==
    \/ EngineStart
    \/ Dispatch
    \/ Execute(NULL)

\* the engine against a remote whose calls can fail
Engine ==
    \/ EngineStart
    \/ Dispatch
    \/ \E err \in {NULL} \cup RemoteErrors : Execute(err)
    \/ AwaitRetry

\* normal operation: adapter, engine and another device, the remote reachable
Next ==
    \/ Adapter
    \/ EngineOk
    \/ \E c \in DOMAIN remote, data \in WriteData : RemoteModify(c, data)

Spec == Init /\ [][Next]_vars

\* failing remote calls and backoff
NextFaults ==
    \/ Session
    \/ Engine
    \/ Tick

SpecFaults == Init /\ [][NextFaults]_vars

\* listings requested by several threads at once, statement by statement
NextRace ==
    \/ \E name \in FolderNames : Mkdir(<<>>, name)
    \/ \E th \in Threads : EnqueueSelect(th)
    \/ \E th \in Threads : EnqueueWrite(th)
    \/ EngineOk

SpecRace == Init /\ [][NextRace]_vars


\* crashes and restarts of the process
NextCrash ==
    \/ Session
    \/ EngineOk
    \/ \E online \in BOOLEAN : Restart(online)

SpecCrash == Init /\ [][NextCrash]_vars

\* a file known from the remote is opened, renamed and moved
NextRename ==
    \/ \E pp \in ParentPaths, name \in FileNames : Create(pp, name)
    \/ \E path \in FilePaths, blacklisted \in BOOLEAN : Open(path, blacklisted)
    \/ \E old_path \in RenamePaths, new_parent \in ParentPaths, new_name \in RenameNames :
          Rename(old_path, new_parent, new_name)
    \/ \E name \in FolderNames : Mkdir(<<>>, name)
    \/ EngineOk

SpecRename == Init /\ [][NextRename]_vars

\* files created, edited and unlinked while remote calls can fail
NextDelete ==
    \/ Session
    \/ \E path \in FilePaths : Unlink(path)
    \/ Engine

SpecDelete == Init /\ [][NextDelete]_vars

\* files opened, read, edited, pinned and evicted while another device edits
NextCache ==
    \/ Session
    \/ \E path \in FilePaths, blacklisted \in BOOLEAN : Open(path, blacklisted)
    \/ \E path \in FilePaths, rg \in ReadRanges, blacklisted \in BOOLEAN :
          Read(path, rg[1], rg[2], blacklisted)
    \/ \E path \in FilePaths, is_pinned \in BOOLEAN : Setxattr(path, is_pinned)
    \/ EngineOk
    \/ \E c \in DOMAIN remote, data \in WriteData : RemoteModify(c, data)

SpecCache == Init /\ [][NextCache]_vars

\* a directory listing waiting for its first pull while folders and files are
\* made and the engine runs or does not; the adapter's thread keeps running
NextReaddir ==
    \/ \E name \in FolderNames : Mkdir(<<>>, name)
    \/ \E pp \in ParentPaths, name \in FileNames : Create(pp, name)
    \/ \E path \in {<<>>} \cup FolderPaths : ReaddirEnter(path)
    \/ ReaddirPoll
    \/ ReaddirReturn
    \/ EngineOk

SpecReaddir ==
    Init /\ [][NextReaddir]_vars /\ WF_vars(ReaddirPoll) /\ WF_vars(ReaddirReturn)

\* renames whose enqueue runs beside the engine's loop
NextFold ==
    \/ \E old_path \in RenamePaths, new_name \in RenameNames : RenameSelect(old_path, new_name)
    \/ RenameWrite
    \/ EngineOk

SpecFold == Init /\ [][NextFold]_vars

\* a file edited while the engine's upload of it is in flight
NextInFlight ==
    \/ Session
    \/ EngineOk
    \/ Transmit
    \/ Finish

SpecInFlight == Init /\ [][NextInFlight]_vars

\* offsets a process writes at when it writes a file piece by piece
PieceOffsets == {0, 1}

\* a file written in pieces while the engine runs
NextWrite ==
    \/ \E name \in FileNames : Create(<<>>, name)
    \/ \E path \in FilePaths, data \in WriteData, offset \in PieceOffsets :
          Write(path, data, offset)
    \/ \E id \in DOMAIN handle_map : Release(id)
    \/ EngineOk

SpecWrite == Init /\ [][NextWrite]_vars

\* a file known from the remote is edited here and deleted on another device
\* while listings are asked for
NextReconcile ==
    \/ \E path \in FilePaths, blacklisted \in BOOLEAN : Open(path, blacklisted)
    \/ \E path \in FilePaths, data \in WriteData, offset \in WriteOffsets :
          Write(path, data, offset)
    \/ \E id \in DOMAIN handle_map : Release(id)
    \/ SyncNow
    \/ EngineOk
    \/ \E c \in DOMAIN remote : RemoteDelete(c)

SpecReconcile == Init /\ [][NextReconcile]_vars

\* names a folder is renamed to, and the paths getattr is asked about
FolderRenameNames == {"e"}
ResolvePaths ==
    LET folders == FolderNames \cup FolderRenameNames
    IN  {<<d>> : d \in folders} \cup {<<n>> : n \in FileNames}
            \cup {<<d, n>> : d \in folders, n \in FileNames}

\* folders and files made, looked up by path, renamed and removed
NextResolve ==
    \/ \E name \in FolderNames : Mkdir(<<>>, name)
    \/ \E pp \in ParentPaths, name \in FileNames : Create(pp, name)
    \/ \E path \in ResolvePaths : Getattr(path)
    \/ \E old_path \in FolderPaths, new_name \in FolderRenameNames :
          Rename(old_path, <<>>, new_name)
    \/ \E old_path \in FilePaths, new_parent \in ParentPaths, new_name \in FileNames :
          Rename(old_path, new_parent, new_name)
    \/ \E path \in ResolvePaths : Unlink(path)
    \/ \E path \in ResolvePaths : Rmdir(path)

SpecResolve == Init /\ [][NextResolve]_vars

\* names an editor gives its scratch files, and their paths below /Drive
TempNames == {"._a"}
TempPaths == {<<n>> : n \in TempNames}

\* an editor writes a scratch file, closes it and renames it into place
NextTemp ==
    \/ \E name \in TempNames : Create(<<>>, name)
    \/ \E path \in TempPaths, data \in WriteData, offset \in WriteOffsets :
          Write(path, data, offset)
    \/ \E id \in DOMAIN handle_map : Release(id)
    \/ \E old_path \in TempPaths, new_name \in FileNames : Rename(old_path, <<>>, new_name)
    \/ EngineOk

SpecTemp == Init /\ [][NextTemp]_vars

(* ------------------------------- claims ------------------------------- *)
\* the engine finishes a list_children task on drive_root, the listing answered
PullStep ==
    /\ task # NoTask
    /\ task[1].action_type = "list_children"
    /\ task[1].target_id = "drive_root"
    /\ Execute(NULL)

\* a dirty row whose item the listing of the zone root returns with another etag
DirtyAndDiffering(id) ==
    /\ objects[id].dirty = 1
    /\ objects[id].cloud_id \in list_directory(remote, CLOUD_DOCS_ZONE_ID_ROOT)
    /\ remote[objects[id].cloud_id].etag # objects[id].etag

TransferRows(acts, id) ==
    {a \in acts : a.target_id = id
                   /\ a.action_type \in {"download", "upload", "update_content"}}

\* C1: when the list_children reconciliation finds an existing Object with
\* dirty = 1 whose remote etag differs from the stored one, it sets the
\* Object's sync-state to conflict, leaves its etag, name, size, parent and
\* cached content unchanged, and enqueues no download or upload for it.
C1_DirtyDifferingEtagIsConflict ==
    [][\A id \in DOMAIN objects :
          (DirtyAndDiffering(id) /\ PullStep) =>
              /\ id \in DOMAIN objects'
              /\ objects'[id].sync_state = SYNC_STATE_CONFLICT
              /\ objects'[id].etag = objects[id].etag
              /\ objects'[id].name = objects[id].name
              /\ objects'[id].size = objects[id].size
              /\ objects'[id].parent_id = objects[id].parent_id
              /\ (id \in DOMAIN files => id \in DOMAIN files' /\ files'[id] = files[id])
              /\ TransferRows(actions', id) \subseteq TransferRows(actions, id)]_vars

Roots == {"root", "drive_root"}

UploadRows(acts, id) ==
    {a \in acts : a.target_id = id /\ a.action_type \in {"upload", "update_content"}}

\* release(id) closes the last handle of a written, not yet synced file with
\* a non-temp name
ClosingRelease(id) ==
    /\ id \in DOMAIN objects
    /\ objects[id].type = "file"
    /\ ~IsTempName(FullName(objects[id].name, objects[id].extension))
    /\ objects[id].dirty = 1
    /\ objects[id].sync_state = SYNC_STATE_PENDING_PUSH
    /\ id \in DOMAIN files
    /\ HandleCount(id) = 1
    /\ Release(id)

\* C2: after a write followed by the release that brings a non-temp file's
\* open-count to 0, the queue holds exactly one update_content or upload
\* action for the file, and its metadata hash is the hash of the cache content
\* after the write; if that hash equals the Shadow's hash the release enqueues
\* nothing.
C2_ReleaseQueuesOneUpload ==
    [][\A id \in DOMAIN handle_map :
          ClosingRelease(id) =>
              IF id \in DOMAIN shadows /\ shadows[id].file_hash = Sha256(files[id])
              THEN actions' = actions
              ELSE /\ Cardinality(UploadRows(actions', id)) = 1
                   /\ \A a \in UploadRows(actions', id) :
                         a.metadata.file_hash = Sha256(files[id])]_vars

\* C3: every Object whose sync-state is synced has a Shadow row whose etag
\* equals the Object's etag (stated for the Objects below the two roots).
C3_SyncedHasShadowWithEtag ==
    \A id \in DOMAIN objects \ Roots :
        objects[id].sync_state = SYNC_STATE_SYNCHRONIZED =>
            id \in DOMAIN shadows /\ shadows[id].etag = objects[id].etag

\* the engine runs with nothing to do and the adapter holds no file open
Quiescent ==
    /\ running
    /\ task = NoTask
    /\ actions = {}
    /\ DOMAIN handle_map = {}

\* C4: convergence, on the runs in which every remote call succeeds: once
\* the queue is empty, the engine idle and no file open, every non-deleted
\* Object is clean and synced with its cloud id set (an idle engine with an
\* empty queue changes nothing afterwards).
C4_QuiescentIsConverged ==
    Quiescent =>
        \A id \in DOMAIN objects \ Roots :
            objects[id].deleted = 0 =>
                /\ objects[id].dirty = 0
                /\ objects[id].sync_state = SYNC_STATE_SYNCHRONIZED
                /\ objects[id].cloud_id # NULL

\* the handler of the task in hand raises `err`
HandlerRaises(err) ==
    /\ task # NoTask
    /\ _process_task(DbState, task[1], err).raised = err
    /\ Execute(err)

\* C5: when a handler fails with an exception carrying a network/transient
\* marker, the action's status is reset to pending and its retry-count is not
\* incremented.
C5_TransientFailureResetsToPending ==
    [][\A err \in TransientErrors :
          HandlerRaises(err) =>
              \E a \in actions' :
                  /\ a.action_id = task[1].action_id
                  /\ a.status = "pending"
                  /\ \A b \in actions : b.action_id = a.action_id =>
                                           a.retry_count = b.retry_count]_vars

\* C6: after the store is opened again following a crash that left an Action
\* in status processing, no Action has status processing.
C6_ReopenResetsProcessing ==
    [][(\E online \in BOOLEAN : Restart(online)) =>
          \A a \in actions' : a.status # "processing"]_vars

\* the try of the loop ends in fail_action
FailStep(err) ==
    /\ task # NoTask
    /\ _process_task(DbState, task[1], err).raised # NULL
    /\ Execute(err)

RowOf(acts, action_id) == {a \in acts : a.action_id = action_id}

BecomesError(id) ==
    /\ id \in DOMAIN objects'
    /\ objects'[id].sync_state = SYNC_STATE_ERROR
    /\ objects[id].sync_state # SYNC_STATE_ERROR

\* C7: a failing Action is removed from the queue and its target Object set
\* to sync-state error exactly when fail_action raises its retry-count above
\* the cap; at or below the cap it stays queued as failed and the failure
\* does not set the Object to error.
C7_RemovedExactlyAboveCap ==
    [][/\ \A err \in {NULL} \cup RemoteErrors :
             FailStep(err) =>
                 \A a \in RowOf(actions, task[1].action_id) :
                     IF a.retry_count + 1 > MAX_RETRIES
                     THEN /\ RowOf(actions', a.action_id) = {}
                          /\ a.target_id \in DOMAIN objects'
                          /\ objects'[a.target_id].sync_state = SYNC_STATE_ERROR
                     ELSE /\ \E b \in RowOf(actions', a.action_id) :
                                b.status = "failed" /\ b.retry_count = a.retry_count + 1
                          /\ ~BecomesError(a.target_id)
       /\ \A id \in DOMAIN objects :
             BecomesError(id) =>
                 \E err \in {NULL} \cup RemoteErrors :
                     /\ FailStep(err)
                     /\ task[1].target_id = id
                     /\ \E a \in RowOf(actions, task[1].action_id) :
                           a.retry_count + 1 > MAX_RETRIES]_vars

\* an Object was given up: its action failed once more than the cap allows
C7_Witness ==
    \E id \in DOMAIN objects :
        /\ objects[id].sync_state = SYNC_STATE_ERROR
        /\ \A a \in actions : a.target_id # id

\* C8: from insertion to removal an Action's retry-count never decreases
\* across any step: not on fail-action, not on dispatch, not on a fold.
C8_RetryCountNeverDecreases ==
    [][\A a \in actions : \A b \in RowOf(actions', a.action_id) :
          b.retry_count >= a.retry_count]_vars

\* C8 as the code has it: the engine (dispatch, fail-action) never lowers a
\* retry-count; the one step that does is an enqueue folding a new intent
\* into a failed row, which resets the row to pending, retry-count 0, no error.
C8_RetryCountLoweredOnlyByFold ==
    [][\A a \in actions : \A b \in RowOf(actions', a.action_id) :
          b.retry_count < a.retry_count =>
              /\ a.status = "failed"
              /\ b.status = "pending" /\ b.retry_count = 0 /\ b.last_error = NULL
              /\ task' = task]_vars

\* an upload row that failed, waited out a backoff and then took an
\* update_content fold: pending again with the folded hash
C8_Witness ==
    \E a \in actions :
        /\ a.action_type = "upload"
        /\ a.status = "pending"
        /\ a.retry_count = 0
        /\ a.metadata.file_hash # NoHash
        /\ now >= a.created_at + 2 * BASE_BACKOFF_SECONDS

Active(a) == a.status \in {"pending", "processing"}

\* C9: for every folder, the queue holds at most one pending or processing
\* list_children action targeting it, whatever interleaving of readdir,
\* "sync now" and engine enqueues produced the queue.
C9_OneListingPerFolder ==
    \A a \in actions : \A b \in actions :
        (/\ a.action_type = "list_children" /\ b.action_type = "list_children"
         /\ a.target_id = b.target_id
         /\ Active(a) /\ Active(b)) => a.action_id = b.action_id

\* C10: for every target and every action kind (download_chunk: per chunk
\* index) at most one action of that kind for that target is pending or
\* processing.
C10_OneActivePerTargetAndKind ==
    \A a \in actions : \A b \in actions :
        (/\ a.target_id = b.target_id
         /\ a.action_type = b.action_type
         /\ a.metadata.chunk_index = b.metadata.chunk_index
         /\ Active(a) /\ Active(b)) => a.action_id = b.action_id

\* C11: actions targeting the same Object are dispatched in the order of
\* their insertion: a later-inserted action is never dispatched while an
\* earlier-inserted one for the same Object is unfinished, also when the
\* earlier one has failed and waits for its retry.  (Stated for rows the
\* queue can tell apart: the earlier row is older by created_at, or failed.)
C11_DispatchedInInsertionOrder ==
    [][Dispatch =>
          \A a \in actions :
              ~(/\ a.target_id = task'[1].target_id
                /\ a.action_id < task'[1].action_id
                /\ (a.created_at < task'[1].created_at \/ a.status = "failed"))]_vars

RenameRows(acts, id) == {a \in acts : a.target_id = id /\ a.action_type = "rename"}
MoveRows(acts, id) == {a \in acts : a.target_id = id /\ a.action_type = "move"}

\* the queue holds the renames and moves of `id` folded: one row of each kind
\* at most, naming the Object's present name and parent
Folded(objs, acts, id) ==
    /\ Cardinality(RenameRows(acts, id)) <= 1
    /\ Cardinality(MoveRows(acts, id)) <= 1
    /\ \A a \in RenameRows(acts, id) :
          a.destination = FullName(objs[id].name, objs[id].extension)
    /\ \A a \in MoveRows(acts, id) : a.destination = objs[id].parent_id

\* the adapter renames the one object a path resolves to
RenameOf(id) ==
    \E old_path \in RenamePaths, new_parent \in ParentPaths, new_name \in RenameNames :
        /\ _resolve(old_path) = {id}
        /\ Rename(old_path, new_parent, new_name)

\* `id` is synced, or inside a run of renames none of which was dispatched
InRenameRun(id) ==
    \/ objects[id].sync_state = SYNC_STATE_SYNCHRONIZED
    \/ /\ RenameRows(actions, id) \cup MoveRows(actions, id) # {}
       /\ \A a \in RenameRows(actions, id) \cup MoveRows(actions, id) : a.status = "pending"
       /\ Folded(objects, actions, id)

\* C12: for a synced Object, after any sequence of adapter renames (renames,
\* moves or both) with no dispatch in between, the queue holds at most one
\* rename and at most one move action for it, the rename's destination being
\* the last name given and the move's the last parent given.
C12_RenamesFoldIntoOne ==
    [][\A id \in DOMAIN objects :
          (InRenameRun(id) /\ RenameOf(id)) => Folded(objects', actions', id)]_vars

RowsFor(acts, id) == {a \in acts : a.target_id = id}

\* the adapter unlinks the one file a path resolves to
UnlinkOf(id) ==
    \E path \in FilePaths : _resolve(path) = {id} /\ Unlink(path)

Drained ==
    /\ running
    /\ task = NoTask
    /\ actions = {}

\* C14: a file created through the adapter and unlinked before it was ever
\* pushed (no cloud id) leaves, once the engine has processed the queue, no
\* Object row, no Shadow, no CacheRecord and no Action.
C14_UnpushedDeleteLeavesNothing ==
    Drained =>
        \A id \in DOMAIN objects :
            ~(/\ objects[id].type = "file"
              /\ objects[id].deleted = 1
              /\ objects[id].cloud_id = NULL)

\* the task in hand is a rename folded from A -> B and B -> A: its
\* destination is the name the renames started from
RenamedBack ==
    /\ task # NoTask
    /\ task[1].action_type = "rename"
    /\ task[1].metadata.from_name = task[1].destination

\* C15: for a synced file named A, rename A -> B followed by rename B -> A
\* before the engine runs costs no remote operation: the two fold into one
\* rename whose destination is A, and the engine removes it as a no-op
\* without a remote rename call.
C15_RenameBackIsNoRemoteOperation ==
    [][(RenamedBack /\ Execute(NULL)) =>
          /\ remote' = remote
          /\ remote_seq' = remote_seq]_vars

\* the adapter opens the one file a path resolves to
OpenOf(id) ==
    \E path \in FilePaths, blacklisted \in BOOLEAN :
        _resolve(path) = {id} /\ Open(path, blacklisted)

\* an uploaded file: clean, synced, known to the remote
CleanAndSynced(id) ==
    /\ objects[id].type = "file"
    /\ objects[id].deleted = 0
    /\ objects[id].dirty = 0
    /\ objects[id].sync_state = SYNC_STATE_SYNCHRONIZED
    /\ objects[id].cloud_id # NULL

\* C16: after a file's upload has succeeded (Object clean and synced), an
\* open followed by a release with no write in between leaves the action
\* queue exactly as it was.
C16_UnmodifiedOpenCloseQueuesNothing ==
    [][\A id \in DOMAIN objects :
          (CleanAndSynced(id) /\ (OpenOf(id) \/ Release(id))) => actions' = actions]_vars

\* the dispatched task is a content fetch for `id`
Fetching(id) ==
    /\ task # NoTask
    /\ task[1].target_id = id
    /\ task[1].action_type \in {"download", "ensure_latest"}

\* C17: the engine never downloads into the cache file of an Object whose
\* CacheRecord.present is not missing: every download or ensure_latest fetch
\* that writes a cache file writes the file of an Object whose present =
\* missing at the time of the fetch.
C17_FetchWritesOnlyMissingFiles ==
    [][\A id \in DOMAIN objects :
          (Fetching(id) /\ Execute(NULL) /\ files' # files)
              => LoadedPresent(drive_cache, id) = 0]_vars

\* the open-count column of the file's cache row
StoredOpenCount(dc, id) == dc[id].open_count

\* C18: open increments the file's stored open-count and release decrements
\* it; while another handle on a dirty file is still open, release enqueues
\* no update_content: the push is enqueued only by the release that brings
\* the open-count to 0.
C18_OpenCountGatesThePush ==
    [][\A id \in DOMAIN drive_cache :
          /\ OpenOf(id) =>
                StoredOpenCount(drive_cache', id) = StoredOpenCount(drive_cache, id) + 1
          /\ (Release(id) /\ StoredOpenCount(drive_cache, id) > 0) =>
                StoredOpenCount(drive_cache', id) = StoredOpenCount(drive_cache, id) - 1
          /\ (Release(id) /\ HandleCount(id) > 1) => actions' = actions]_vars

\* setxattr(user.orchard.pinned = 0) on the one file a path resolves to
EvictOf(id) ==
    \E path \in FilePaths : _resolve(path) = {id} /\ Setxattr(path, FALSE)

\* C19: an evict truncates the cache file and sets present = missing only
\* when the Object has dirty = 0 and no open handle; on a dirty file, or a
\* file that still has an open handle, it leaves the cache file and present
\* unchanged; after an evict that is carried out, present = missing and the
\* on-disk size is 0.
C19_EvictOnlyCleanAndClosed ==
    [][\A id \in DOMAIN objects :
          EvictOf(id) =>
              IF objects[id].dirty # 0 \/ HandleCount(id) > 0
              THEN /\ files' = files
                   /\ LoadedPresent(drive_cache', id) = LoadedPresent(drive_cache, id)
              ELSE /\ LoadedPresent(drive_cache', id) = 0
                   /\ id \in DOMAIN files' => files'[id] = <<>>]_vars

\* the content-fetch rows of the queue
FetchRows(acts) ==
    {a \in acts : a.action_type \in {"download", "ensure_latest", "download_chunk"}}

\* an indexer or thumbnailer opens the one file a path resolves to
BlacklistedOpen(id) ==
    \E path \in FilePaths : _resolve(path) = {id} /\ Open(path, TRUE)

\* C20: a read issued by a blacklisted process on a file that is not fully
\* present locally returns EACCES and enqueues nothing, and an open by such a
\* process adds no content-fetch action (download, ensure_latest,
\* download_chunk) to the queue.
C20_BlacklistedNeverFetches ==
    [][\A id \in DOMAIN objects :
          /\ (objects[id].type = "file" /\ LoadedPresent(drive_cache, id) # 1)
                => read(id, TRUE) = "EACCES"
          /\ BlacklistedOpen(id) => FetchRows(actions') = FetchRows(actions)]_vars

\* a handle is open on a cloud-only file and nothing is queued to fetch it
C20_Witness ==
    \E id \in DOMAIN handle_map :
        /\ HandleCount(id) > 0
        /\ objects[id].type = "file"
        /\ objects[id].cloud_id # NULL
        /\ objects[id].dirty = 0
        /\ LoadedPresent(drive_cache, id) = 0
        /\ read(id, TRUE) = "EACCES"
        /\ FetchRows(actions) = {}
        /\ task = NoTask

\* the parent of `id` is an existing folder row that is not soft-deleted
ParentIsLiveFolder(objs, id) ==
    /\ objs[id].parent_id \in DOMAIN objs
    /\ objs[objs[id].parent_id].type = "folder"
    /\ objs[objs[id].parent_id].deleted = 0

\* C21: in every reachable state every Object other than the synthetic root
\* has a parent id that refers to an existing Object of type folder with
\* deleted = 0, and only the root has a NULL parent.
C21_ParentIsExistingLiveFolder ==
    \A id \in DOMAIN objects :
        IF id = "root" THEN objects[id].parent_id = NULL
        ELSE ParentIsLiveFolder(objects, id)

\* C22: in every reachable state, every CacheRecord with present = full has
\* cached-size equal to its Object's size.
C22_FullCacheSizeIsObjectSize ==
    \A id \in DOMAIN drive_cache :
        (id \in DOMAIN objects /\ drive_cache[id].present_locally = 1)
            => drive_cache[id].size = objects[id].size

\* rename of `id` to a path at which the live file `victim` is found
RenameOnto(id, victim) ==
    \E old_path \in RenamePaths, new_parent \in ParentPaths, new_name \in RenameNames :
        /\ _resolve(old_path) = {id}
        /\ victim \in _resolve(new_parent \o <<new_name>>)
        /\ victim # id
        /\ objects[victim].type = "file"
        /\ Rename(old_path, new_parent, new_name)

\* C23: when adapter rename targets a destination path at which a
\* non-deleted, non-folder Object already exists, that Object is soft-deleted
\* (deleted = 1) and a delete action is queued for it, so that after rename
\* returns the destination path names only the renamed Object.
C23_RenameReplacesExistingTarget ==
    [][\A id \in DOMAIN objects : \A victim \in DOMAIN objects :
          RenameOnto(id, victim) =>
              /\ objects'[victim].deleted = 1
              /\ \E a \in actions' : a.target_id = victim /\ a.action_type = "delete"]_vars

\* a readdir is inside its wait loop
ReaddirWaiting == readdir_wait # NoCall /\ ~readdir_wait[1].returned

\* the readdir has returned its listing
ReaddirReturned == readdir_wait # NoCall /\ readdir_wait[1].returned

\* C24: readdir on a non-root folder whose last-synced is 0 polls the store
\* at most 20 times and then returns the non-deleted children currently in
\* the store, even if no list_children for the folder ever completes: it
\* never blocks forever.
C24_ReaddirWaitIsBounded ==
    /\ [](readdir_wait # NoCall => readdir_wait[1].polls <= READDIR_POLLS)
    /\ [][ReaddirReturn => readdir_wait'[1].dirents = Dirents(objects, readdir_wait[1].id)]_vars
    /\ ReaddirWaiting ~> ReaddirReturned

\* a listing was returned after the full wait while its pull is still queued
C24_Witness ==
    /\ ReaddirReturned
    /\ readdir_wait[1].polls = READDIR_POLLS
    /\ readdir_wait[1].id # "root"
    /\ \E a \in actions : /\ a.action_type = "list_children"
                           /\ a.target_id = readdir_wait[1].id
                           /\ a.status = "pending"

\* the rename call of the adapter thread has done its write
RenameEnqueued == enq["fuse"] # NoCall /\ enq["fuse"][1].written

\* the remote item of `id` bears the name `dest`
RemoteNamed(rem, cloud_id, dest) ==
    /\ cloud_id \in DOMAIN rem
    /\ dest \in {rem[cloud_id].name, FullName(rem[cloud_id].name, rem[cloud_id].extension)}

\* C25: an intent is never lost to the race between the coalescer and the
\* dispatcher: once a rename's enqueue and the engine's handling of the row it
\* was folded into have both finished, either an action carrying the new
\* destination is in the queue or the remote item already bears the new name.
C25_FoldedIntentSurvivesDispatch ==
    (RenameEnqueued /\ task = NoTask) =>
        LET c == enq["fuse"][1]
        IN  objects[c.target_id].cloud_id # NULL =>
              \/ \E a \in actions : /\ a.target_id = c.target_id
                                     /\ a.action_type = "rename"
                                     /\ a.destination = c.destination
              \/ RemoteNamed(remote, objects[c.target_id].cloud_id, c.destination)

\* nothing is queued or running for `id` and no handle is open on it
Settled(id) ==
    /\ HandleCount(id) = 0
    /\ task = NoTask
    /\ RowsFor(actions, id) = {}

\* C26: a write that lands while the Object's upload or update_content is in
\* flight is not silently dropped: after the file is released and the queue
\* has drained the Object is never left with dirty = 0, sync-state synced, no
\* queued push, and cache content different from the content uploaded.
C26_WriteDuringUploadIsPushed ==
    \A id \in DOMAIN files :
        (/\ Settled(id)
         /\ id \in DOMAIN objects
         /\ objects[id].dirty = 0
         /\ objects[id].sync_state = SYNC_STATE_SYNCHRONIZED
         /\ objects[id].cloud_id \in DOMAIN remote)
            => remote[objects[id].cloud_id].data = files[id]

\* the time from which a failed row may be retried
RetryDue(a) == a.created_at + BASE_BACKOFF_SECONDS * Pow2(a.retry_count)

Unpushed(id) ==
    /\ objects[id].type = "file"
    /\ id \in DOMAIN files
    /\ \/ objects[id].cloud_id \notin DOMAIN remote
       \/ remote[objects[id].cloud_id].data # files[id]

\* C28: an Object's dirty flag goes from 1 to 0 only when that Object's
\* content has been pushed by a successful upload or update_content: no
\* other handler clears dirty on a file whose locally modified content has
\* not been pushed.
C28_DirtyClearedOnlyByPush ==
    [][\A id \in DOMAIN objects \cap DOMAIN objects' :
          (objects[id].dirty = 1 /\ objects'[id].dirty = 0 /\ Unpushed(id))
              => /\ task # NoTask
                 /\ task[1].target_id = id
                 /\ task[1].action_type \in {"upload", "update_content"}]_vars

\* write(path, data, offset) on the one file the path resolves to
WriteOf(id, data, offset) ==
    \E path \in FilePaths : _resolve(path) = {id} /\ Write(path, data, offset)

\* C29: a write(offset, bytes) on a file changes only the bytes in
\* [offset, offset + len(bytes)) of its cache file: every byte previously
\* written outside that range is preserved.
C29_WriteKeepsBytesOutsideRange ==
    [][\A id \in DOMAIN files : \A data \in WriteData : \A offset \in PieceOffsets :
          WriteOf(id, data, offset) =>
              \A i \in 1..Len(files[id]) :
                  (i <= offset \/ i > offset + Len(data)) => files'[id][i] = files[id][i]]_vars

\* C30: after the engine executes the upload of a locally created folder and
\* then the list_children it enqueued for the folder's parent, that same
\* local folder Object (not a newly inserted duplicate) carries the cloud id
\* the remote assigned.
C30_UploadedFolderLearnsCloudId ==
    Drained =>
        \A id \in DOMAIN objects \ Roots :
            (/\ objects[id].type = "folder"
             /\ objects[id].deleted = 0
             /\ objects[id].dirty = 0
             /\ objects[id].sync_state = SYNC_STATE_SYNCHRONIZED)
                => objects[id].cloud_id # NULL

\* the engine executes a move task for an object the remote holds, towards a
\* folder the remote holds, and reaches the metadata lookup; the rows queued
\* for the object were created in different seconds, so that every ORDER BY
\* created_at over them has one answer
MoveOf(id) ==
    /\ task # NoTask
    /\ task[1].action_type = "move"
    /\ task[1].target_id = id
    /\ task' = NoTask
    /\ objects[id].cloud_id \in DOMAIN remote
    /\ ParentCloudId(objects, task[1].destination) # NULL
    /\ OriginalParentCloudId(DbState, id) # NULL
    /\ \A a, b \in RowsFor(actions, id) : a # b => a.created_at # b.created_at

RenamePushed(id) ==
    /\ task # NoTask
    /\ task[1].action_type = "rename"
    /\ task[1].target_id = id
    /\ task' = NoTask
    /\ objects[id].type = "file"
    /\ objects[id].cloud_id \in DOMAIN remote
    /\ remote'[objects[id].cloud_id].etag # remote[objects[id].cloud_id].etag

\* C32: after the engine successfully executes a rename action for a file,
\* the Object's display name (name, plus '.' and the extension when one is
\* set) equals the destination name the adapter requested.
C32_RenamedDisplayNameIsDestination ==
    [][\A id \in DOMAIN objects \ Roots :
          RenamePushed(id) =>
              FullName(objects'[id].name, objects'[id].extension) = task[1].destination]_vars

\* the engine finishes a list_children task on the folder F, the remote
\* answering
ListingOf(F) ==
    /\ task # NoTask
    /\ task[1].action_type = "list_children"
    /\ task[1].target_id = F
    /\ Execute(NULL)

\* C33: every successful execution of a list_children action for a folder F,
\* the drive root or any other folder, sets F's last-synced to the current
\* time.
C33_ListingRefreshesLastSynced ==
    [][\A F \in DOMAIN objects : ListingOf(F) => objects'[F].last_synced = now]_vars

\* the engine executes a delete task for the object id and the remote removes
\* the item
DeleteConfirmed(id) ==
    /\ task # NoTask
    /\ task[1].action_type = "delete"
    /\ task[1].target_id = id
    /\ Execute(NULL)
    /\ objects[id].cloud_id # NULL
    /\ objects[id].cloud_id \notin DOMAIN remote'

\* the remote delete of a delete task raises
DeleteRaises(err) ==
    /\ FailStep(err)
    /\ task[1].action_type = "delete"

\* an Object row or CacheRecord leaves the store only in a step in which the
\* remote confirmed the delete
RemovedOnlyOnConfirmation ==
    /\ \A id \in DOMAIN objects : id \notin DOMAIN objects' => DeleteConfirmed(id)
    /\ \A id \in DOMAIN drive_cache \cap DOMAIN objects :
          id \notin DOMAIN drive_cache' => DeleteConfirmed(id)

\* C34 as stated: the engine removes an Object's row (and its CacheRecord)
\* only after the remote delete returned successfully; whenever the remote
\* delete raises, the row remains with deleted = 1 and the delete action
\* stays in the queue with status failed.
C34_FailedDeleteStaysQueued ==
    [][/\ RemovedOnlyOnConfirmation
       /\ \A err \in RemoteErrors :
             DeleteRaises(err) =>
                 /\ task[1].target_id \in DOMAIN objects'
                 /\ objects'[task[1].target_id].deleted = 1
                 /\ \E b \in RowOf(actions', task[1].action_id) : b.status = "failed"]_vars

\* C34 as the code has it: the row (and its CacheRecord) is removed only
\* after the remote delete returned successfully; when the remote delete
\* raises, the row remains with deleted = 1, and the delete action stays
\* queued as failed unless this failure takes its retry-count above the cap,
\* in which case the action is removed and the Object set to error.
C34_FailedDeleteStaysQueuedUpToCap ==
    [][/\ RemovedOnlyOnConfirmation
       /\ \A err \in RemoteErrors :
             DeleteRaises(err) =>
                 /\ task[1].target_id \in DOMAIN objects'
                 /\ objects'[task[1].target_id].deleted = 1
                 /\ \A a \in RowOf(actions, task[1].action_id) :
                       IF RetriesExceeded(a.retry_count + 1)
                       THEN /\ RowOf(actions', a.action_id) = {}
                            /\ objects'[a.target_id].sync_state = SYNC_STATE_ERROR
                       ELSE \E b \in RowOf(actions', a.action_id) :
                               b.status = "failed" /\ b.retry_count = a.retry_count + 1]_vars

\* a remote delete raised: the delete action is queued as failed and its
\* Object is still in the store, soft-deleted, with its cloud id
C34_Witness ==
    \E a \in actions :
        /\ a.action_type = "delete"
        /\ a.status = "failed"
        /\ a.target_id \in DOMAIN objects
        /\ objects[a.target_id].deleted = 1
        /\ objects[a.target_id].cloud_id \in DOMAIN remote

\* a list_children pass marks the object id deleted
PullDeletes(id) ==
    /\ task # NoTask
    /\ task[1].action_type = "list_children"
    /\ task' = NoTask
    /\ id \in DOMAIN objects'
    /\ objects[id].deleted = 0
    /\ objects'[id].deleted = 1

\* C35: remote reconciliation never soft-deletes local work: a list_children
\* pass sets deleted = 1 only on Objects that have a cloud id, are absent
\* from the remote listing of their parent and have dirty = 0.
C35_PullNeverDeletesLocalWork ==
    [][\A id \in DOMAIN objects :
          PullDeletes(id) =>
              /\ objects[id].cloud_id # NULL
              /\ objects[id].cloud_id \notin
                    list_directory(remote, ParentCloudId(objects, objects[id].parent_id))
              /\ objects[id].dirty = 0]_vars

\* no adapter call is between two of its statements
AdapterIdle ==
    /\ \A th \in Threads :
          IF enq[th] = NoCall THEN TRUE
          ELSE "written" \in DOMAIN enq[th][1] /\ enq[th][1].written
    /\ IF readdir_wait = NoCall THEN TRUE ELSE readdir_wait[1].returned

\* a live file that is modified, closed and not temp-named
ModifiedAndClosed(id) ==
    /\ objects[id].type = "file"
    /\ objects[id].deleted = 0
    /\ objects[id].dirty = 1
    /\ ~IsTempName(FullName(objects[id].name, objects[id].extension))
    /\ HandleCount(id) = 0

\* C36: whenever no adapter call is in progress, every non-deleted file
\* Object with dirty = 1, a non-temp name and no open handle has an upload or
\* update_content action in the queue (pending, processing or failed), or is
\* in sync-state conflict or error.
C36_ModifiedFileHasScheduledPush ==
    AdapterIdle =>
        \A id \in DOMAIN objects \ Roots :
            ModifiedAndClosed(id) =>
                \/ UploadRows(actions, id) # {}
                \/ objects[id].sync_state \in {SYNC_STATE_CONFLICT, SYNC_STATE_ERROR}

\* C37: a path resolves (through the path cache) to an Object only if walking
\* the current Object tree from /Drive along the path's components reaches
\* that Object through non-deleted entries; so after unlink, rmdir, rename or
\* move of the Object or of an ancestor folder the old path does not resolve
C37_ResolvedPathIsTreePath ==
    \A path \in ResolvePaths :
        \A r \in ResolveCached(objects, path_to_id, path) :
            r.obj # NULL => r.obj \in _resolve(path)

\* the chunk indexes of the download_chunk rows in a queue
ChunkRows(acts) == {a.metadata.chunk_index : a \in {x \in acts : x.action_type = "download_chunk"}}

\* a process that is not blacklisted reads size > 0 bytes at offset from the
\* file `id`, which is not fully present
ReadOf(id, size, offset) ==
    /\ size > 0
    /\ LoadedPresent(drive_cache, id) # 1
    /\ \E path \in FilePaths : _resolve(path) = {id} /\ Read(path, size, offset, FALSE)

\* C38: a read of len > 0 bytes at offset on a file that is not fully present
\* enqueues download_chunk for exactly the chunk indexes from
\* floor(offset / chunk_size) to floor((offset + len - 1) / chunk_size) that
\* are not in the present-chunk set (no chunk is ever recorded as present)
C38_ReadEnqueuesMissingChunks ==
    [][\A id \in DOMAIN objects : \A rg \in ReadRanges :
          ReadOf(id, rg[1], rg[2]) =>
              ChunkRows(actions') \ ChunkRows(actions) = NeededChunks(rg[1], rg[2])]_vars

\* the ids of the upload and update_content rows queued for an object
UploadIds(acts, id) == {a.action_id : a \in UploadRows(acts, id)}

\* a file whose display name starts with a temp-file prefix
TempNamed(objs, id) ==
    /\ id \in DOMAIN objs
    /\ objs[id].type = "file"
    /\ IsTempName(FullName(objs[id].name, objs[id].extension))

\* C39: a file whose name starts with a temp-file prefix never causes an
\* upload or update_content action to be enqueued: neither its create nor its
\* release, dirty and fully closed or not, adds such a row for it
C39_TempFileNeverQueuesUpload ==
    [][\A id \in DOMAIN objects' :
          TempNamed(objects', id) => UploadIds(actions', id) \subseteq UploadIds(actions, id)]_vars

\* this step changes the pinned flag of the CacheRecord of `id`
PinnedChanges(id) ==
    /\ id \in DOMAIN drive_cache
    /\ id \in DOMAIN drive_cache'
    /\ drive_cache'[id].pinned # drive_cache[id].pinned

\* C40: the pinned flag of a CacheRecord changes only in a setxattr on the
\* pinned attribute; open, write, create, release and every other adapter or
\* engine step that rewrites the CacheRecord leaves the flag as it was
C40_PinnedChangesOnlyBySetxattr ==
    [][\A id \in DOMAIN objects :
          PinnedChanges(id) =>
              \E path \in FilePaths, is_pinned \in BOOLEAN : Setxattr(path, is_pinned)]_vars

====
